---- MODULE Spec2Model ----
(***************************************************************************)
(* CANDE input-file editor: the mesh model (models/cande_model.py), its    *)
(* fixed-column record codec and the interface-synthesis algorithm.        *)
(*                                                                         *)
(* A line of the file is a sequence of one-character strings, so that the  *)
(* column positions of the writer (slices at fixed offsets) and the token  *)
(* positions of the reader (regular expressions) are both computed and can *)
(* disagree.  Offsets are 0-based as in the Python source: the slice       *)
(* line[a:b] is Slice(line, a, b).  Coordinates, friction and angles are   *)
(* held in thousandths (the precision of the "%10.3f" record fields).      *)
(***************************************************************************)
EXTENDS Integers, Sequences, FiniteSets, TLC

(***************************************************************************)
(* Python string primitives                                                *)
(***************************************************************************)
DigitChars == <<"0", "1", "2", "3", "4", "5", "6", "7", "8", "9">>

DigitSet == {DigitChars[i] : i \in 1..10}

\* re: \s
WhiteSpace == {" ", "\t", "\n", "\r"}

\* re: \w (the characters that occur in the modelled files)
WordSet == DigitSet \cup {"A", "B", "C", "D", "E", "I", "L", "N", "O", "P", "R", "S", "T",
                          "a", "e", "i", "l", "n", "r", "t", "_"}

DigitVal(c) == CHOOSE d \in 0..9 : DigitChars[d + 1] = c

\* s[a:b] with 0 <= a, Python slice clipping at the end of s
Slice(s, a, b) ==
  LET e == IF b > Len(s) THEN Len(s) ELSE b
  IN  IF a >= e THEN <<>> ELSE SubSeq(s, a + 1, e)

\* s[a:]
SliceFrom(s, a) == Slice(s, a, Len(s))

\* n spaces
Spaces(n) == [i \in 1..n |-> " "]

RECURSIVE NatStr(_)
\* str(n) for n >= 0
NatStr(n) == IF n < 10 THEN <<DigitChars[n + 1]>>
             ELSE NatStr(n \div 10) \o <<DigitChars[(n % 10) + 1]>>

\* str(n)
IntStr(n) == IF n < 0 THEN <<"-">> \o NatStr(-n) ELSE NatStr(n)

\* s.rjust(w): pads on the left, never truncates
RJust(s, w) == IF Len(s) >= w THEN s ELSE Spaces(w - Len(s)) \o s

\* s.ljust(w), the alignment of f"{s:5s}"
LJust(s, w) == IF Len(s) >= w THEN s ELSE s \o Spaces(w - Len(s))

\* f"{n:wd}"
FmtInt(n, w) == RJust(IntStr(n), w)

\* f"{v:w.3f}" for a value held in thousandths
FmtFloat3(v, w) ==
  LET a    == IF v < 0 THEN -v ELSE v
      frac == a % 1000
      body == NatStr(a \div 1000) \o <<".">>
              \o <<DigitChars[(frac \div 100) + 1], DigitChars[((frac \div 10) % 10) + 1],
                   DigitChars[(frac % 10) + 1]>>
  IN  RJust(IF v < 0 THEN <<"-">> \o body ELSE body, w)

\* s.strip()
RECURSIVE LStrip(_)
LStrip(s) == IF s # <<>> /\ Head(s) \in WhiteSpace THEN LStrip(Tail(s)) ELSE s

RECURSIVE RStrip(_)
RStrip(s) == IF s # <<>> /\ s[Len(s)] \in WhiteSpace THEN RStrip(SubSeq(s, 1, Len(s) - 1)) ELSE s

Strip(s) == RStrip(LStrip(s))

\* s.isdigit()
IsDigitStr(s) == s # <<>> /\ \A i \in 1..Len(s) : s[i] \in DigitSet

RECURSIVE DigitsVal(_)
\* int(s) for a string of digits
DigitsVal(s) == IF s = <<>> THEN 0 ELSE 10 * DigitsVal(SubSeq(s, 1, Len(s) - 1)) + DigitVal(s[Len(s)])

\* s.startswith(t) at offset p
HasAt(s, p, t) == p + Len(t) <= Len(s) /\ SubSeq(s, p + 1, p + Len(t)) = t

\* t in s
Contains(s, t) == \E p \in 0..Len(s) : HasAt(s, p, t)

\* s.find(t)
FindFirst(s, t) == IF Contains(s, t) THEN CHOOSE p \in 0..Len(s) : HasAt(s, p, t) /\ \A q \in 0..(p - 1) : ~HasAt(s, q, t)
                   ELSE -1

RECURSIVE ReplaceAll(_, _, _)
\* s.replace(old, new)
ReplaceAll(s, old, new) ==
  IF s = <<>> THEN <<>>
  ELSE IF HasAt(s, 0, old) THEN new \o ReplaceAll(SliceFrom(s, Len(old)), old, new)
  ELSE <<Head(s)>> \o ReplaceAll(Tail(s), old, new)

RECURSIVE SkipWhile(_, _, _)
\* the offset reached from p by a greedy run of characters of set cs
SkipWhile(s, p, cs) == IF p < Len(s) /\ s[p + 1] \in cs THEN SkipWhile(s, p + 1, cs) ELSE p

(***************************************************************************)
(* utils/constants.py                                                      *)
(***************************************************************************)
MATERIAL_START_POS == 52
MATERIAL_END_POS == 57
MATERIAL_FIELD_WIDTH == MATERIAL_END_POS - MATERIAL_START_POS
STEP_START_POS == 57
STEP_END_POS == 62
STEP_FIELD_WIDTH == STEP_END_POS - STEP_START_POS

(***************************************************************************)
(* Record markers and the fixed record templates of the writer             *)
(***************************************************************************)
C1Marker == <<"C", "-", "1", ".", "L", "3", "!", "!">>
C2Marker == <<"C", "-", "2", ".", "L", "3", "!", "!">>
C3Marker == <<"C", "-", "3", ".", "L", "3", "!", "!">>
C4Marker == <<"C", "-", "4", ".", "L", "3", "!", "!">>
D1Marker == <<"D", "-", "1", "!", "!">>
D2Marker == <<"D", "-", "2", ".", "I", "n", "t", "e", "r", "f", "a", "c", "e", "!", "!">>
BangL == <<"!", "!", "L">>
BangSp == <<"!", "!", " ">>
NL == <<"\n">>
CRLF == <<"\r", "\n">>

\* os.linesep: "\n" on a POSIX build, "\r\n" on a Windows build
LineSeps == {NL, CRLF}

\* open(filepath, 'r') and readlines(): the lines of the file as text mode hands
\* them over, the terminator "\r\n" of a line translated to "\n"
readlines(disk) ==
  [i \in 1..Len(disk) |->
     IF Len(disk[i]) >= 2 /\ SubSeq(disk[i], Len(disk[i]) - 1, Len(disk[i])) = CRLF
     THEN SubSeq(disk[i], 1, Len(disk[i]) - 2) \o NL
     ELSE disk[i]]

RECURSIVE TextWritten(_, _)
\* what text mode stores for a string written to open(save_path, 'w'): every
\* "\n" of it becomes os.linesep
TextWritten(s, linesep) ==
  IF s = <<>> THEN <<>>
  ELSE (IF Head(s) = "\n" THEN linesep ELSE <<Head(s)>>) \o TextWritten(Tail(s), linesep)

\* file.writelines(new_file_content): the stored text of each line
writelines(lines, linesep) == [i \in 1..Len(lines) |-> TextWritten(lines[i], linesep)]

\* the leading indentation of the C-3 / C-4 templates (19 blanks)
RecordIndent == Spaces(19)

\* nodes + [0] * (4 - len(nodes))
PadNodes(nodes) == nodes \o [i \in 1..(4 - Len(nodes)) |-> 0]

\* CandeModel._generate_node_line
generate_node_line(node) ==
  RecordIndent \o C3Marker \o <<" ">> \o FmtInt(node.node_id, 4) \o <<" ", " ", "0", "0", "0">>
  \o FmtFloat3(node.x, 10) \o FmtFloat3(node.y, 10) \o NL

\* CandeModel._generate_element_line
generate_element_line(element) ==
  LET element_type == IF element.type = "InterfaceElement" THEN 1 ELSE 0
      node_ids == PadNodes(element.nodes)
  IN  RecordIndent \o C4Marker \o <<" ">> \o FmtInt(element.element_id, 4)
      \o FmtInt(node_ids[1], 5) \o FmtInt(node_ids[2], 5) \o FmtInt(node_ids[3], 5)
      \o FmtInt(node_ids[4], 5) \o FmtInt(element.material, 5) \o FmtInt(element.step, 5)
      \o FmtInt(element_type, 5) \o NL

\* "Inter #N"
MaterialName(material_id) == <<"I", "n", "t", "e", "r", " ", "#">> \o IntStr(material_id)

\* save_file: the D-1 record of an interface material
D1Line(material_id, is_last) ==
  Spaces(22) \o D1Marker \o <<IF is_last THEN "L" ELSE " ">> \o FmtInt(material_id, 4)
  \o FmtInt(6, 5) \o FmtInt(0, 10) \o RJust(MaterialName(material_id), 20) \o NL

\* the angle math.atan2 returns for (-0.0, x) with x > 0: an IEEE negative zero,
\* which is neither < 0 nor >= 360 and prints as -0.000
NegativeZero == -1

\* f"{angle:w.3f}"
FmtAngle(angle, w) ==
  IF angle = NegativeZero THEN RJust(<<"-", "0", ".", "0", "0", "0">>, w) ELSE FmtFloat3(angle, w)

\* save_file: the D-2 record of an interface material
D2Line(angle, friction) ==
  Spaces(12) \o D2Marker \o FmtAngle(angle, 10) \o FmtFloat3(friction, 10) \o NL

(***************************************************************************)
(* The regular expressions of the reader.  A match is a record: ok, and    *)
(* for each group its 0-based start and end offset (match.start(k),        *)
(* match.end(k)); an absent optional group is <<-1, -1>>.  Every character *)
(* class of the patterns is followed by a disjoint one wherever it is      *)
(* repeated, so the greedy scan below is the only possible match.          *)
(***************************************************************************)
NoMatch == [ok |-> FALSE, g |-> <<>>]

RECURSIVE ScanInts(_, _, _)
\* k repetitions of \s+(\d+) from offset p: the groups found, or <<>> when one fails
ScanInts(s, p, k) ==
  IF k = 0 THEN <<>>
  ELSE LET w == SkipWhile(s, p, WhiteSpace)
           d == SkipWhile(s, w, DigitSet)
       IN  IF w = p \/ d = w THEN <<>>
           ELSE LET rest == ScanInts(s, d, k - 1)
                IN  IF k > 1 /\ rest = <<>> THEN <<>> ELSE <<(<<w, d>>)>> \o rest

\* ^\s*C-4\.L3!![ L]+(\d+)\s+(\d+)\s+(\d+)\s+(\d+)\s+(\d+)\s+(\d+)\s+(\d+)(?:\s+(\d+))?
element_pattern(line) ==
  LET p0 == SkipWhile(line, 0, WhiteSpace)
      p1 == p0 + Len(C4Marker)
      p2 == SkipWhile(line, p1, {" ", "L"})
      q1 == SkipWhile(line, p2, DigitSet)
      six == ScanInts(line, q1, 6)
  IN  IF ~HasAt(line, p0, C4Marker) \/ p2 = p1 \/ q1 = p2 \/ six = <<>> THEN NoMatch
      ELSE LET opt == ScanInts(line, six[6][2], 1)
           IN  [ok |-> TRUE,
                g  |-> <<(<<p2, q1>>)>> \o six \o (IF opt = <<>> THEN <<(<<-1, -1>>)>> ELSE opt)]

\* -?[\d.]+ from offset p: the end offset, or p when it does not match
ScanFloatText(s, p) ==
  LET m == IF p < Len(s) /\ s[p + 1] = "-" THEN p + 1 ELSE p
      e == SkipWhile(s, m, DigitSet \cup {"."})
  IN  IF e = m THEN p ELSE e

\* ^\s*C-3\.L3!![ L]+(\d+)\s+\w+\s+(-?[\d.]+)\s+(-?[\d.]+)
node_pattern(line) ==
  LET p0 == SkipWhile(line, 0, WhiteSpace)
      p1 == p0 + Len(C3Marker)
      p2 == SkipWhile(line, p1, {" ", "L"})
      q1 == SkipWhile(line, p2, DigitSet)
      w1 == SkipWhile(line, q1, WhiteSpace)
      t1 == SkipWhile(line, w1, WordSet)
      w2 == SkipWhile(line, t1, WhiteSpace)
      x2 == ScanFloatText(line, w2)
      w3 == SkipWhile(line, x2, WhiteSpace)
      y2 == ScanFloatText(line, w3)
  IN  IF ~HasAt(line, p0, C3Marker) \/ p2 = p1 \/ q1 = p2 \/ w1 = q1 \/ t1 = w1 \/ w2 = t1
         \/ x2 = w2 \/ w3 = x2 \/ y2 = w3
      THEN NoMatch
      ELSE [ok |-> TRUE, g |-> <<(<<p2, q1>>), <<w2, x2>>, <<w3, y2>>>>]

\* match.group(k) as text
Group(line, m, k) == Slice(line, m.g[k][1], m.g[k][2])

\* int(match.group(k))
GroupInt(line, m, k) == DigitsVal(Group(line, m, k))

\* float(text), in thousandths: ok is FALSE where Python raises ValueError
\* (no digit, or more than one point); digits past the third decimal are dropped
ParseFloat(text) ==
  LET neg    == text # <<>> /\ Head(text) = "-"
      body   == IF neg THEN Tail(text) ELSE text
      points == {i \in 1..Len(body) : body[i] = "."}
      pt     == IF points = {} THEN Len(body) + 1 ELSE CHOOSE i \in points : TRUE
      ip     == SubSeq(body, 1, pt - 1)
      fp     == SubSeq(body, pt + 1, Len(body))
      fp3    == SubSeq(fp \o <<"0", "0", "0">>, 1, 3)
      mag    == 1000 * DigitsVal(ip) + DigitsVal(fp3)
  IN  IF Cardinality(points) > 1 \/ Len(ip) + Len(fp) = 0 THEN [ok |-> FALSE, v |-> 0]
      ELSE [ok |-> TRUE, v |-> IF neg THEN -mag ELSE mag]

(***************************************************************************)
(* Mesh entities.  The dictionaries nodes and elements of CandeModel are   *)
(* sequences of records in insertion order (the iteration order of a       *)
(* Python dict); storing under a key already present keeps its position.   *)
(***************************************************************************)
\* models/node.py: Node(node_id, x, y, line_number, line_content)
Node(node_id, x, y, line_number, line_content) ==
  [node_id |-> node_id, x |-> x, y |-> y, line_number |-> line_number,
   line_content |-> line_content]

\* models/element.py: Element1D / Element2D / InterfaceElement; friction and angle
\* are attributes of InterfaceElement only and are 0 on the other variants
Element(type, element_id, nodes, material, step, line_number, line_content, friction, angle) ==
  [type |-> type, element_id |-> element_id, nodes |-> nodes, material |-> material,
   step |-> step, line_number |-> line_number, line_content |-> line_content,
   friction |-> friction, angle |-> angle]

\* InterfaceElement.friction default (0.3)
DefaultFriction == 300

\* BaseElement.__post_init__ and InterfaceElement.__post_init__: TRUE where no
\* ValueError is raised
ElementValid(type, element_id, nodes, material, step) ==
  /\ element_id > 0
  /\ Len(nodes) >= 2
  /\ \A i \in 1..Len(nodes) : nodes[i] > 0
  /\ material > 0
  /\ step > 0
  /\ (type = "InterfaceElement" => Len(nodes) = 3)

\* InterfaceElement.__post_init__: the angle brought into [0, 360)
NormalizeAngle(a) == IF a = NegativeZero THEN a ELSE a % 360000

SeqRange(q) == {q[i] : i \in 1..Len(q)}

NodeIds(ns) == {ns[i].node_id : i \in 1..Len(ns)}

ElementIds(es) == {es[i].element_id : i \in 1..Len(es)}

\* self.nodes[node_id]
NodeAt(ns, id) == ns[CHOOSE i \in 1..Len(ns) : ns[i].node_id = id]

\* self.elements[element_id]
ElementAt(es, id) == es[CHOOSE i \in 1..Len(es) : es[i].element_id = id]

\* self.nodes[node.node_id] = node
PutNode(ns, node) ==
  IF node.node_id \in NodeIds(ns)
  THEN [i \in 1..Len(ns) |-> IF ns[i].node_id = node.node_id THEN node ELSE ns[i]]
  ELSE Append(ns, node)

\* self.elements[element.element_id] = element
PutElement(es, element) ==
  IF element.element_id \in ElementIds(es)
  THEN [i \in 1..Len(es) |-> IF es[i].element_id = element.element_id THEN element ELSE es[i]]
  ELSE Append(es, element)

\* [n for n in q if n != 0]
RECURSIVE NonZero(_)
NonZero(q) == IF q = <<>> THEN <<>>
              ELSE IF Head(q) # 0 THEN <<Head(q)>> \o NonZero(Tail(q)) ELSE NonZero(Tail(q))

Reverse(q) == [i \in 1..Len(q) |-> q[Len(q) + 1 - i]]

(***************************************************************************)
(* ensure_valid_2d_element_ordering                                        *)
(***************************************************************************)
\* the order of math.atan2(y, x) on integer vectors: the value lies in
\* (-pi, 0) for y < 0, is 0 for y = 0 <= x, lies in (0, pi) for y > 0, is pi else
AngleClass(v) == IF v[2] < 0 THEN 0 ELSE IF v[2] > 0 THEN 2 ELSE IF v[1] >= 0 THEN 1 ELSE 3

AngleLess(a, b) ==
  \/ AngleClass(a) < AngleClass(b)
  \/ /\ AngleClass(a) = AngleClass(b)
     /\ AngleClass(a) \in {0, 2}
     /\ a[1] * b[2] - a[2] * b[1] > 0

\* sorted(range(4), key=lambda i: angles[i]) (a stable sort), 1-based
SortedIndices(vs) ==
  LET before(j, i) == AngleLess(vs[j], vs[i]) \/ (~AngleLess(vs[i], vs[j]) /\ j < i)
      rank(i) == Cardinality({j \in 1..Len(vs) : j # i /\ before(j, i)})
  IN  [r \in 1..Len(vs) |-> CHOOSE i \in 1..Len(vs) : rank(i) = r - 1]

\* _lines_intersect.ccw
Ccw(a, b, c) == (c[2] - a[2]) * (b[1] - a[1]) > (b[2] - a[2]) * (c[1] - a[1])

lines_intersect(p1, p2, p3, p4) ==
  Ccw(p1, p3, p4) # Ccw(p2, p3, p4) /\ Ccw(p1, p2, p3) # Ccw(p1, p2, p4)

is_self_intersecting(q) ==
  lines_intersect(q[1], q[2], q[3], q[4]) \/ lines_intersect(q[2], q[3], q[4], q[1])

\* the node order the method leaves in element.nodes, and the value it returns
ensure_valid_2d_element_ordering(ns, nodes) ==
  IF \E i \in 1..Len(nodes) : nodes[i] \notin NodeIds(ns)
  THEN [nodes |-> nodes, valid |-> FALSE]
  ELSE LET c == [i \in 1..Len(nodes) |-> <<NodeAt(ns, nodes[i]).x, NodeAt(ns, nodes[i]).y>>]
       IN  IF Len(nodes) = 3
           THEN LET twice_area == (c[2][1] - c[1][1]) * (c[3][2] - c[1][2])
                                  - (c[3][1] - c[1][1]) * (c[2][2] - c[1][2])
                IN  [nodes |-> IF twice_area < 0 THEN Reverse(nodes) ELSE nodes, valid |-> TRUE]
           ELSE IF Len(nodes) = 4
           THEN LET sx == c[1][1] + c[2][1] + c[3][1] + c[4][1]
                    sy == c[1][2] + c[2][2] + c[3][2] + c[4][2]
                    \* 4 * (node - centroid): the same direction as node - centroid
                    vs == [i \in 1..4 |-> <<4 * c[i][1] - sx, 4 * c[i][2] - sy>>]
                    sorted_indices == SortedIndices(vs)
                    new_coords == [i \in 1..4 |-> c[sorted_indices[i]]]
                IN  [nodes |-> [i \in 1..4 |-> nodes[sorted_indices[i]]],
                     valid |-> ~is_self_intersecting(new_coords)]
           ELSE [nodes |-> nodes, valid |-> FALSE]

(***************************************************************************)
(* parse_cande_file.  The accumulator carries ok = FALSE from the line on  *)
(* which the Python code raises (float(), int(None), the KeyError of       *)
(* ELEMENT_CLASS_DICT, the ValueError of a constructor): the lines after   *)
(* it are not read, and what was stored before it stays stored.            *)
(***************************************************************************)
ParseNodeLine(acc, line_num, line, m) ==
  LET node_id == GroupInt(line, m, 1)
      x == ParseFloat(Group(line, m, 2))
      y == ParseFloat(Group(line, m, 3))
  IN  IF ~x.ok \/ ~y.ok \/ node_id <= 0 THEN [acc EXCEPT !.ok = FALSE]
      ELSE [acc EXCEPT !.nodes = PutNode(@, Node(node_id, x.v, y.v, line_num, line))]

ParseElementLine(acc, line_num, line, m) ==
  IF m.g[8][1] < 0 THEN [acc EXCEPT !.ok = FALSE]        \* int(None): TypeError
  ELSE
  LET element_id == GroupInt(line, m, 1)
      node_ids == NonZero(<<GroupInt(line, m, 2), GroupInt(line, m, 3),
                            GroupInt(line, m, 4), GroupInt(line, m, 5)>>)
      material == GroupInt(line, m, 6)
      step == GroupInt(line, m, 7)
      element_class == GroupInt(line, m, 8)
      node_count == Len(node_ids)
      type == IF element_class = 1 THEN "InterfaceElement"
              ELSE IF node_count = 2 THEN "Element1D"
              ELSE IF node_count \in {3, 4} THEN "Element2D"
              ELSE "skip"
  IN  IF element_class \notin {0, 1} THEN [acc EXCEPT !.ok = FALSE]      \* KeyError
      ELSE IF type = "skip" THEN acc
      ELSE IF ~ElementValid(type, element_id, node_ids, material, step)
      THEN [acc EXCEPT !.ok = FALSE]                                     \* ValueError
      ELSE LET ordered == IF type = "Element2D"
                          THEN ensure_valid_2d_element_ordering(acc.nodes, node_ids).nodes
                          ELSE node_ids
               el == Element(type, element_id, ordered, material, step, line_num, line,
                             IF type = "InterfaceElement" THEN DefaultFriction ELSE 0, 0)
           IN  [acc EXCEPT !.elements = PutElement(@, el),
                           !.max_material = IF material > @ THEN material ELSE @,
                           !.max_step = IF step > @ THEN step ELSE @]

ParseLine(acc, line_num, line) ==
  LET nm == node_pattern(line)
      em == element_pattern(line)
  IN  IF ~acc.ok THEN acc
      ELSE IF nm.ok THEN ParseNodeLine(acc, line_num, line, nm)
      ELSE IF em.ok THEN ParseElementLine(acc, line_num, line, em)
      ELSE acc

RECURSIVE ParseFrom(_, _, _)
\* the lines from index k (1-based) on; line_num is the 0-based k - 1
ParseFrom(content, k, acc) ==
  IF k > Len(content) THEN acc
  ELSE ParseFrom(content, k + 1, ParseLine(acc, k - 1, content[k]))

parse_cande_file(content, max_material, max_step) ==
  ParseFrom(content, 1, [nodes |-> <<>>, elements |-> <<>>, ok |-> TRUE,
                         max_material |-> max_material, max_step |-> max_step])

(***************************************************************************)
(* Selection and bulk assignment                                           *)
(***************************************************************************)
\* the element_type_filter argument: None, one type name, or a list of type names
NoFilter == [kind |-> "none", names |-> <<>>]
OneFilter(name) == [kind |-> "str", names |-> <<name>>]
ListFilter(names) == [kind |-> "list", names |-> names]

\* CandeModel.element_matches_filter, with None written "None"
element_matches_filter(element, f) ==
  \/ f = "None"
  \/ f = "1D" /\ element.type = "Element1D"
  \/ f = "2D" /\ element.type = "Element2D"
  \/ f = "Interface" /\ element.type = "InterfaceElement"

\* the filter test shared by select_elements_by_material, select_elements_by_step
\* and update_elements
PassesFilter(element, filter) ==
  IF filter.kind = "list"
  THEN \E i \in 1..Len(filter.names) : element_matches_filter(element, filter.names[i])
  ELSE element_matches_filter(element, IF filter.kind = "none" THEN "None" ELSE filter.names[1])

\* the ids select_elements_by_material adds to the selection
select_elements_by_material(es, material, filter) ==
  {es[i].element_id : i \in {j \in 1..Len(es) : PassesFilter(es[j], filter) /\ es[j].material = material}}

\* the ids select_elements_by_step adds to the selection
select_elements_by_step(es, step, filter) ==
  {es[i].element_id : i \in {j \in 1..Len(es) : PassesFilter(es[j], filter) /\ es[j].step = step}}

\* seq[n] with a Python index (0-based, negative from the end), as a 1-based index
PyIndex(q, n) == IF n < 0 THEN Len(q) + n + 1 ELSE n + 1

\* a writer that lets an over-long value overflow its field
FieldTextOverflow(value, width) == RJust(IntStr(value), width)

\* update_elements: a value right-justified in its field, cut to its last chars if longer
FieldText(value, width) ==
  LET t == RJust(IntStr(value), width)
  IN  IF Len(t) > width THEN SubSeq(t, Len(t) - width + 1, Len(t)) ELSE t

\* update_elements: prefix + field text + suffix around the span [start, end)
PatchField(line, start, end, text) ==
  LET prefix == IF Len(line) > start THEN Slice(line, 0, start) ELSE line
      suffix == IF Len(line) > end THEN SliceFrom(line, end) ELSE <<>>
  IN  prefix \o text \o suffix

\* an optional argument: None is <<>>, the value v is <<v>>
None == <<>>
Some(v) == <<v>>

\* update_elements: the line after both fields are written
PatchedLine(line, material, step) ==
  LET l1 == IF material # None
            THEN PatchField(line, MATERIAL_START_POS, MATERIAL_END_POS,
                            FieldText(material[1], MATERIAL_FIELD_WIDTH))
            ELSE line
  IN  IF step # None
      THEN PatchField(l1, STEP_START_POS, STEP_END_POS, FieldText(step[1], STEP_FIELD_WIDTH))
      ELSE l1

\* the ids of a set in increasing order: the order in which CPython iterates a
\* set of small distinct integers
RECURSIVE SortedIds(_)
SortedIds(S) == IF S = {} THEN <<>>
                ELSE LET m == CHOOSE x \in S : \A y \in S : x <= y
                     IN  <<m>> \o SortedIds(S \ {m})

RECURSIVE UpdateLoop(_, _, _, _, _)
\* update_elements: the loop over the selection; st = [elements, content, count]
UpdateLoop(ids, st, material, step, filter) ==
  IF ids = <<>> THEN st
  ELSE
  LET id == Head(ids)
      rest == Tail(ids)
  IN  IF id \notin ElementIds(st.elements) THEN UpdateLoop(rest, st, material, step, filter)
      ELSE
      LET element == ElementAt(st.elements, id)
      IN  IF ~PassesFilter(element, filter) THEN UpdateLoop(rest, st, material, step, filter)
          ELSE
          LET k == PyIndex(st.content, element.line_number)
              line == PatchedLine(st.content[k], material, step)
              updated == [element EXCEPT
                            !.material = IF material # None THEN material[1] ELSE @,
                            !.step = IF step # None THEN step[1] ELSE @,
                            !.line_content = line]
          IN  UpdateLoop(rest,
                         [elements |-> PutElement(st.elements, updated),
                          content |-> [st.content EXCEPT ![k] = line],
                          count |-> st.count + 1],
                         material, step, filter)

\* CandeModel.update_elements
update_elements(es, content, selected, material, step, filter) ==
  IF content = <<>> THEN [elements |-> es, content |-> content, count |-> 0]
  ELSE UpdateLoop(SortedIds(selected), [elements |-> es, content |-> content, count |-> 0],
                  material, step, filter)

(***************************************************************************)
(* Interface angles                                                        *)
(***************************************************************************)
Abs(n) == IF n < 0 THEN -n ELSE n

\* degrees(atan(b / a)) in thousandths for 0 <= b, 0 <= a, not both 0, over the
\* directions that occur between the grid points of the modelled meshes
AtanTable == {<<0, 1, 0>>, <<1, 3, 18435>>, <<1, 2, 26565>>, <<2, 3, 33690>>, <<1, 1, 45000>>,
              <<3, 2, 56310>>, <<2, 1, 63435>>, <<3, 1, 71565>>, <<1, 0, 90000>>}

AtanMilliDeg(b, a) == (CHOOSE r \in AtanTable : r[1] * a = r[2] * b)[3]

\* math.degrees(math.atan2(y, x)) in thousandths, in (-180000, 180000]
Atan2MilliDeg(y, x) ==
  IF x = 0 /\ y = 0 THEN 0
  ELSE LET t == AtanMilliDeg(Abs(y), Abs(x))
       IN  IF x >= 0 THEN (IF y >= 0 THEN t ELSE -t)
           ELSE (IF y >= 0 THEN 180000 - t ELSE t - 180000)

Coord(ns, id) == <<NodeAt(ns, id).x, NodeAt(ns, id).y>>

\* the computation shared by _calculate_angle_for_node and
\* _calculate_angle_for_triplet: None, or the angle in [0, 360).  On integer
\* coordinates chord_length < 1e-8 and mag_vector_to_shared < 1e-8 hold exactly
\* when the vector is zero, and dot2 = -dot1, so dot1 > dot2 is dot1 > 0.
AngleOfPoints(s, e0, e1) ==
  LET cx == e1[1] - e0[1]
      cy == e1[2] - e0[2]
      \* twice the vector from the chord midpoint to the shared node
      vx == 2 * s[1] - (e0[1] + e1[1])
      vy == 2 * s[2] - (e0[2] + e1[2])
      dot1 == (-cy) * vx + cx * vy
      chosen == IF dot1 > 0 THEN <<-cy, cx>> ELSE <<cy, -cx>>
  IN  IF cx = 0 /\ cy = 0 THEN None
      ELSE IF vx = 0 /\ vy = 0 THEN None
      ELSE IF dot1 <= 0 /\ cx = 0 /\ cy > 0 THEN Some(NegativeZero)
      ELSE Some(NormalizeAngle(Atan2MilliDeg(chosen[2], chosen[1])))

\* the first node of a beam that is one of the allowed nodes, as <<n>>, or <<>>
FirstNode(beam_nodes, allowed) ==
  LET ok == {i \in 1..Len(beam_nodes) : beam_nodes[i] \in allowed}
  IN  IF ok = {} THEN <<>> ELSE <<beam_nodes[CHOOSE i \in ok : \A j \in ok : i <= j]>>

\* CandeModel._calculate_angle_for_node
calculate_angle_for_node(ns, es, shared_node_id, element_ids) ==
  LET Far == NodeIds(ns) \ {shared_node_id}
      endpoints == FirstNode(ElementAt(es, element_ids[1]).nodes, Far)
                   \o FirstNode(ElementAt(es, element_ids[2]).nodes, Far)
  IN  IF shared_node_id \notin NodeIds(ns) \/ Len(endpoints) # 2 THEN None
      ELSE AngleOfPoints(Coord(ns, shared_node_id), Coord(ns, endpoints[1]), Coord(ns, endpoints[2]))

\* CandeModel._calculate_angle_for_triplet
calculate_angle_for_triplet(ns, shared_node_id, end1_id, end2_id) ==
  IF {shared_node_id, end1_id, end2_id} \subseteq NodeIds(ns)
  THEN AngleOfPoints(Coord(ns, shared_node_id), Coord(ns, end1_id), Coord(ns, end2_id))
  ELSE None

RECURSIVE BeamsAt(_, _, _)
\* node_to_elements[n] / beam_graph[n] of _calculate_beam_angles: the selected
\* beams using node n, once per use, in the order of beam_ids
BeamsAt(es, beam_ids, n) ==
  IF beam_ids = <<>> THEN <<>>
  ELSE LET b == ElementAt(es, Head(beam_ids))
       IN  [i \in 1..Cardinality({j \in 1..Len(b.nodes) : b.nodes[j] = n}) |-> Head(beam_ids)]
           \o BeamsAt(es, Tail(beam_ids), n)

max_depth == 3

RECURSIVE Neighbours(_, _, _, _)
\* the (next_node_id, next_element_id) pairs the search looks at from current_node
Neighbours(es, adj, current_node, last_element) ==
  IF adj = <<>> THEN <<>>
  ELSE LET rest == Neighbours(es, Tail(adj), current_node, last_element)
           b == ElementAt(es, Head(adj))
       IN  IF Head(adj) = last_element THEN rest
           ELSE [i \in 1..Len(b.nodes) |-> <<b.nodes[i], Head(adj)>>] \o rest

RECURSIVE Enqueue(_, _, _, _)
\* st = [frontier, visited]: the neighbours not yet visited join both
Enqueue(cands, current_node, depth, st) ==
  IF cands = <<>> THEN st
  ELSE LET n == Head(cands)[1]
       IN  IF n # current_node /\ n \notin st.visited
           THEN Enqueue(Tail(cands), current_node, depth,
                        [frontier |-> Append(st.frontier, <<n, Head(cands)[2], depth + 1>>),
                         visited |-> st.visited \cup {n}])
           ELSE Enqueue(Tail(cands), current_node, depth, st)

RECURSIVE SearchAtDepth(_, _, _, _, _, _)
\* the breadth-first loop of the extended search: the nodes found at exactly depth
SearchAtDepth(es, beam_ids, frontier, visited, depth, found) ==
  IF frontier = <<>> THEN found
  ELSE LET cur == Head(frontier)
       IN  IF cur[3] = depth
           THEN SearchAtDepth(es, beam_ids, Tail(frontier), visited, depth, Append(found, cur[1]))
           ELSE LET st == Enqueue(Neighbours(es, BeamsAt(es, beam_ids, cur[1]), cur[1], cur[2]),
                                  cur[1], cur[3],
                                  [frontier |-> Tail(frontier), visited |-> visited])
                IN  SearchAtDepth(es, beam_ids, st.frontier, st.visited, depth, found)

RECURSIVE FirstAngle(_, _, _, _)
\* the first triplet of the list, other than the initial one, that yields an angle
FirstAngle(ns, shared_node_id, triplets, endpoints) ==
  IF triplets = <<>> THEN None
  ELSE LET t == Head(triplets)
           a == calculate_angle_for_triplet(ns, shared_node_id, t[1], t[2])
       IN  IF t = endpoints \/ a = None
           THEN FirstAngle(ns, shared_node_id, Tail(triplets), endpoints)
           ELSE a

\* CandeModel._calculate_angle_with_extended_search
calculate_angle_with_extended_search(ns, es, beam_ids, shared_node_id, element_ids) ==
  LET NotShared(i) == SeqRange(ElementAt(es, element_ids[i]).nodes) \ {shared_node_id}
      ep == [i \in 1..2 |-> FirstNode(ElementAt(es, element_ids[i]).nodes, NotShared(i))[1]]
      At(depth, i) ==
        LET found == SearchAtDepth(es, beam_ids, <<(<<ep[i], element_ids[i], 1>>)>>,
                                   {shared_node_id, ep[i]}, depth, <<>>)
        IN  [k \in 1..Len(found) |-> <<found[k], ep[3 - i]>>]
      triplets == <<(<<ep[1], ep[2]>>)>> \o At(2, 1) \o At(2, 2)
                  \o (IF max_depth >= 3 THEN At(3, 1) \o At(3, 2) ELSE <<>>)
  IN  FirstAngle(ns, shared_node_id, triplets, <<ep[1], ep[2]>>)

\* CandeModel._calculate_beam_angles: the pairs <<node_id, angle>> of node_angles
calculate_beam_angles(ns, es, beam_ids) ==
  LET used == UNION {SeqRange(ElementAt(es, beam_ids[i]).nodes) : i \in 1..Len(beam_ids)}
      AngleAt(n) ==
        LET element_ids == BeamsAt(es, beam_ids, n)
            direct == calculate_angle_for_node(ns, es, n, element_ids)
        IN  IF Len(element_ids) # 2 THEN None
            ELSE IF direct # None THEN direct
            ELSE calculate_angle_with_extended_search(ns, es, beam_ids, n, element_ids)
  IN  {<<n, AngleAt(n)[1]>> : n \in {m \in used : AngleAt(m) # None}}

\* node_angles.get(node_id, 0.0)
AngleGet(node_angles, node_id) ==
  IF \E p \in node_angles : p[1] = node_id
  THEN (CHOOSE p \in node_angles : p[1] = node_id)[2]
  ELSE 0

(***************************************************************************)
(* create_interfaces                                                       *)
(***************************************************************************)
\* beam_elements of create_interfaces: the selected Element1D ids, in the
\* iteration order of the selection
BeamIds(es, selected) ==
  SortedIds({id \in selected \cap ElementIds(es) : ElementAt(es, id).type = "Element1D"})

\* an eligibility rule that asks only for two uses by beams, whatever else uses
\* the node
find_nodes_used_twice_by_beams(es) ==
  {n \in UNION {SeqRange(es[i].nodes) : i \in {j \in 1..Len(es) : es[j].type = "Element1D"}} :
     Cardinality({p \in (1..Len(es)) \X (1..4) :
                    /\ es[p[1]].type = "Element1D"
                    /\ p[2] <= Len(es[p[1]].nodes)
                    /\ es[p[1]].nodes[p[2]] = n}) >= 2}

\* CandeModel._find_shared_beam_nodes (called without a beam collection): nodes
\* used at least twice by beams, by a 2D element, and by no interface element
find_shared_beam_nodes(es) ==
  LET Uses(t) == UNION {SeqRange(es[i].nodes) : i \in {j \in 1..Len(es) : es[j].type = t}}
      count(n) == Cardinality({p \in (1..Len(es)) \X (1..4) :
                                 /\ es[p[1]].type = "Element1D"
                                 /\ p[2] <= Len(es[p[1]].nodes)
                                 /\ es[p[1]].nodes[p[2]] = n})
  IN  {n \in Uses("Element1D") :
         count(n) >= 2 /\ n \in Uses("Element2D") /\ n \notin Uses("InterfaceElement")}

\* create_interfaces: all_shared_nodes, the nodes used by more than one selected beam
AllSharedNodes(es, beam_ids) ==
  LET used == UNION {SeqRange(ElementAt(es, beam_ids[i]).nodes) : i \in 1..Len(beam_ids)}
  IN  {n \in used : Cardinality({i \in 1..Len(beam_ids) :
                                   n \in SeqRange(ElementAt(es, beam_ids[i]).nodes)}) > 1}

RECURSIVE BeamGraph(_, _, _)
\* beam_graph[n] of _find_beam_chains: the pairs (element_id, other_node_id)
BeamGraph(es, beam_ids, n) ==
  IF beam_ids = <<>> THEN <<>>
  ELSE LET b == ElementAt(es, Head(beam_ids))
       IN  (IF b.nodes[1] = n THEN <<(<<b.element_id, b.nodes[2]>>)>> ELSE <<>>)
           \o (IF b.nodes[2] = n THEN <<(<<b.element_id, b.nodes[1]>>)>> ELSE <<>>)
           \o BeamGraph(es, Tail(beam_ids), n)

RECURSIVE ExtendChain(_, _, _, _, _, _)
\* the while loop of _find_beam_chains; st = [chain, visited]
ExtendChain(es, beam_ids, current_node, prev_node, forward, st) ==
  LET adj == BeamGraph(es, beam_ids, current_node)
      ok == {i \in 1..Len(adj) : adj[i][1] \notin st.visited /\ adj[i][2] # prev_node}
  IN  IF ok = {} THEN st
      ELSE LET nxt == adj[CHOOSE i \in ok : \A j \in ok : i <= j]
           IN  ExtendChain(es, beam_ids, nxt[2], current_node, forward,
                           [chain |-> IF forward THEN Append(st.chain, nxt[1])
                                      ELSE <<nxt[1]>> \o st.chain,
                            visited |-> st.visited \cup {nxt[1]}])

RECURSIVE ChainsFrom(_, _, _, _, _)
ChainsFrom(es, beam_ids, k, visited, chains) ==
  IF k > Len(beam_ids) THEN chains
  ELSE IF beam_ids[k] \in visited THEN ChainsFrom(es, beam_ids, k + 1, visited, chains)
  ELSE LET b == ElementAt(es, beam_ids[k])
           node1 == b.nodes[1]
           node2 == b.nodes[2]
           s0 == [chain |-> <<beam_ids[k]>>, visited |-> visited \cup {beam_ids[k]}]
           s1 == ExtendChain(es, beam_ids, node1, node2, TRUE, s0)
           s2 == ExtendChain(es, beam_ids, node2, IF node2 = node1 THEN node2 ELSE node1,
                             node2 = node1, s1)
       IN  ChainsFrom(es, beam_ids, k + 1, s2.visited, Append(chains, s2.chain))

\* CandeModel._find_beam_chains
find_beam_chains(es, beam_ids) == ChainsFrom(es, beam_ids, 1, {}, <<>>)

RECURSIVE WalkChain(_, _, _, _)
WalkChain(es, chain, i, chain_nodes) ==
  IF i > Len(chain) THEN chain_nodes
  ELSE LET last_node == chain_nodes[Len(chain_nodes)]
           NotLast == SeqRange(ElementAt(es, chain[i]).nodes) \ {last_node}
           next_node == FirstNode(ElementAt(es, chain[i]).nodes, NotLast)[1]
       IN  WalkChain(es, chain, i + 1, Append(chain_nodes, next_node))

\* CandeModel._extract_shared_nodes_from_chain
extract_shared_nodes_from_chain(es, chain) ==
  IF Len(chain) <= 1 THEN <<>>
  ELSE LET first_beam == ElementAt(es, chain[1])
           second_beam == ElementAt(es, chain[2])
           node1 == first_beam.nodes[1]
           node2 == first_beam.nodes[2]
           start == IF node1 \in SeqRange(second_beam.nodes) THEN <<node2, node1>>
                    ELSE <<node1, node2>>
           chain_nodes == WalkChain(es, chain, 2, start)
       IN  SubSeq(chain_nodes, 2, Len(chain_nodes) - 1)

\* _update_beam_elements_for_interface: the regenerated line_content of a beam
RewiredLine(original_line, nodes) ==
  LET m == element_pattern(original_line)
      node_ids == PadNodes(nodes)
  IN  Slice(original_line, 0, m.g[2][1])
      \o FmtInt(node_ids[1], 5) \o FmtInt(node_ids[2], 5) \o FmtInt(node_ids[3], 5)
      \o FmtInt(node_ids[4], 5) \o SliceFrom(original_line, m.g[5][2])

\* a rewiring that reaches every beam at the node, selected or not
update_every_beam_for_interface(es, content, old_node_id, new_node_id, element_ids_to_update) ==
  [i \in 1..Len(es) |->
     IF es[i].type = "Element1D" /\ old_node_id \in SeqRange(es[i].nodes)
     THEN [es[i] EXCEPT !.nodes = [j \in 1..Len(es[i].nodes) |->
                                    IF es[i].nodes[j] = old_node_id THEN new_node_id
                                    ELSE es[i].nodes[j]]]
     ELSE es[i]]

\* CandeModel._update_beam_elements_for_interface
update_beam_elements_for_interface(es, content, old_node_id, new_node_id, element_ids_to_update) ==
  [i \in 1..Len(es) |->
     LET element == es[i]
         new_nodes == [j \in 1..Len(element.nodes) |->
                         IF element.nodes[j] = old_node_id THEN new_node_id ELSE element.nodes[j]]
     IN  IF /\ element.element_id \in element_ids_to_update
            /\ element.type = "Element1D"
            /\ old_node_id \in SeqRange(element.nodes)
         THEN IF /\ element.line_number >= 0
                 /\ element.line_number < Len(content)
                 /\ element_pattern(content[element.line_number + 1]).ok
              THEN [element EXCEPT !.nodes = new_nodes,
                                   !.line_content = RewiredLine(content[element.line_number + 1], new_nodes)]
              ELSE [element EXCEPT !.nodes = new_nodes]
         ELSE element]

\* [n for n in q if n in S]
RECURSIVE FilterIn(_, _)
FilterIn(q, S) == IF q = <<>> THEN <<>>
                  ELSE IF Head(q) \in S THEN <<Head(q)>> \o FilterIn(Tail(q), S)
                  ELSE FilterIn(Tail(q), S)

\* ids that reuse the greatest id in use for the inside node
ReusedNodeIds(max_node_id) == <<max_node_id, max_node_id + 1>>

\* create_interfaces: the ids of the new I and K nodes, i_node_id and k_node_id
NewNodeIds(max_node_id) == <<max_node_id + 1, max_node_id + 2>>

RECURSIVE CreateAtNodes(_, _, _, _, _)
\* the inner loop of create_interfaces over the eligible shared nodes of one
\* chain; st = [nodes, elements, max_node_id, max_element_id, created, raised]
CreateAtNodes(node_ids, st, ctx, friction, node_angles) ==
  IF node_ids = <<>> \/ st.raised THEN st
  ELSE
  LET node_id == Head(node_ids)
      i_node_id == NewNodeIds(st.max_node_id)[1]
      k_node_id == NewNodeIds(st.max_node_id)[2]
      interface_element_id == st.max_element_id + 1
  IN  IF node_id \notin NodeIds(st.nodes) THEN [st EXCEPT !.raised = TRUE]   \* KeyError
      ELSE
      LET original_node == NodeAt(st.nodes, node_id)
          ns1 == PutNode(st.nodes, Node(i_node_id, original_node.x, original_node.y, -1, <<>>))
          ns2 == PutNode(ns1, Node(k_node_id, original_node.x, original_node.y, -1, <<>>))
          interface == Element("InterfaceElement", interface_element_id,
                               <<i_node_id, node_id, k_node_id>>, 1, 1, -1, <<>>,
                               friction, NormalizeAngle(AngleGet(node_angles, node_id)))
          es1 == PutElement(st.elements, interface)
          es2 == update_beam_elements_for_interface(es1, ctx.content, node_id, i_node_id,
                                                    SeqRange(ctx.beam_ids))
      IN  CreateAtNodes(Tail(node_ids),
                        [st EXCEPT !.nodes = ns2, !.elements = es2,
                                   !.max_node_id = k_node_id,
                                   !.max_element_id = interface_element_id,
                                   !.created = Append(@, [element_id |-> interface_element_id,
                                                          J |-> node_id, I |-> i_node_id,
                                                          K |-> k_node_id])],
                        ctx, friction, node_angles)

RECURSIVE CreateInChains(_, _, _, _, _)
\* the outer loop of create_interfaces over the beam chains
CreateInChains(chains, st, ctx, friction, node_angles) ==
  IF chains = <<>> \/ st.raised THEN st
  ELSE LET chain == Head(chains)
           chain_shared_nodes == FilterIn(extract_shared_nodes_from_chain(st.elements, chain),
                                          ctx.shared_nodes)
       IN  IF Len(chain) <= 1 THEN CreateInChains(Tail(chains), st, ctx, friction, node_angles)
           ELSE CreateInChains(Tail(chains),
                               CreateAtNodes(chain_shared_nodes, st, ctx, friction, node_angles),
                               ctx, friction, node_angles)

Max(S) == CHOOSE x \in S : \A y \in S : y <= x

\* CandeModel.create_interfaces: the nodes and elements it leaves, its return
\* value (count, flag), the interfaces it created, and whether it raised
create_interfaces(ns, es, content, selected, friction) ==
  LET beam_ids == BeamIds(es, selected)
      shared_nodes == find_shared_beam_nodes(es)
      all_shared_nodes == AllSharedNodes(es, beam_ids)
      none(flag) == [nodes |-> ns, elements |-> es, count |-> 0, flag |-> flag,
                     created |-> <<>>, raised |-> FALSE]
  IN  IF ns = <<>> \/ es = <<>> \/ selected = {} \/ beam_ids = <<>> THEN none(FALSE)
      ELSE IF shared_nodes = {} THEN none(all_shared_nodes # {})
      ELSE
      LET node_angles == calculate_beam_angles(ns, es, beam_ids)
          beam_chains == find_beam_chains(es, beam_ids)
          returned(st) == [nodes |-> st.nodes, elements |-> st.elements,
                           count |-> Len(st.created), flag |-> FALSE,
                           created |-> st.created, raised |-> st.raised]
      IN  returned(CreateInChains(beam_chains,
                                  [nodes |-> ns, elements |-> es,
                                   max_node_id |-> Max(NodeIds(ns)),
                                   max_element_id |-> Max(ElementIds(es)),
                                   created |-> <<>>, raised |-> FALSE],
                                  [content |-> content, beam_ids |-> beam_ids,
                                   shared_nodes |-> shared_nodes],
                                  friction, node_angles))

(***************************************************************************)
(* CandeController.create_interfaces, the create-interfaces command        *)
(***************************************************************************)
\* the texts handed to main_window.show_message; NoMessage where none is shown
NoMessage == ""
NoModelMessage == "No model loaded"
NoEligibleMessage == "No eligible nodes found for interface creation. Try selecting beam elements first."
InvalidFrictionMessage == "Invalid friction value"
CreatedMessage == "Created {count} interface elements"

\* float(self.main_window.friction_var.get()) and the range check on it: ok is
\* FALSE where ValueError is raised
FrictionOf(text) ==
  LET f == ParseFloat(text)
  IN  IF ~f.ok \/ f.v < 0 \/ f.v > 1000 THEN [ok |-> FALSE, v |-> 0] ELSE f

\* the command after the call of the model: count is bound to the tuple the
\* model returns, and count > 0 compares a tuple with an int (TypeError), so
\* neither branch of the report is reached
ReportCreated(r) ==
  CHOOSE report \in {[nodes |-> count.nodes, elements |-> count.elements, called |-> TRUE,
                      count |-> count.count, flag |-> count.flag, created |-> count.created,
                      raised |-> TRUE, message |-> NoMessage] : count \in {r}} : TRUE

\* CandeController.create_interfaces with the text of the friction box
controller_create_interfaces(ns, es, content, selected, text) ==
  LET shown(message) == [nodes |-> ns, elements |-> es, called |-> FALSE, count |-> 0,
                         flag |-> FALSE, created |-> <<>>, raised |-> FALSE,
                         message |-> message]
  IN  IF ns = <<>> \/ es = <<>> THEN shown(NoModelMessage)
      ELSE IF selected = {} THEN shown(NoEligibleMessage)
      ELSE IF ~FrictionOf(text).ok THEN shown(InvalidFrictionMessage)
      ELSE ReportCreated(create_interfaces(ns, es, content, selected, FrictionOf(text).v))

(***************************************************************************)
(* save_file                                                               *)
(***************************************************************************)
\* list.insert(at + i, items[i]) for i = 0, 1, ...: a splice at offset at,
\* or at the end when at is past it
InsertAt(q, at, items) ==
  LET a == IF at > Len(q) THEN Len(q) ELSE at
  IN  SubSeq(q, 1, a) \o items \o SubSeq(q, a + 1, Len(q))

\* re: ^\s*C-3\.L3!!L
NodeLastPattern(line) == HasAt(line, SkipWhile(line, 0, WhiteSpace), C3Marker \o <<"L">>)

\* re: ^\s*C-4\.L3!!L
ElementLastPattern(line) == HasAt(line, SkipWhile(line, 0, WhiteSpace), C4Marker \o <<"L">>)

\* re: ^\s*<head>.*!!L  (c5_pattern with head C-5, c4_pattern with head C-4)
SectionLastPattern(line, head) ==
  LET p0 == SkipWhile(line, 0, WhiteSpace)
      body == Slice(line, p0 + Len(head), IF line # <<>> /\ line[Len(line)] = "\n"
                                         THEN Len(line) - 1 ELSE Len(line))
  IN  HasAt(line, p0, head) /\ Contains(body, BangL)

\* re: ^\s*D-\d+.*!!.   (. matches any character but the newline)
ExistingDPattern(line) ==
  LET p0 == SkipWhile(line, 0, WhiteSpace)
      d1 == p0 + 2
      d2 == SkipWhile(line, d1, DigitSet)
  IN  /\ HasAt(line, p0, <<"D", "-">>)
      /\ d2 > d1
      /\ \E q \in d2..Len(line) :
           /\ HasAt(line, q, <<"!", "!">>)
           /\ q + 2 < Len(line)
           /\ \A r \in d2..(q + 2) : line[r + 1] # "\n"

\* the 0-based indices i at which hits[i] holds: for i, line in enumerate(...)
Indices(hits) == {i \in 0..Len(hits) - 1 : hits[i + 1]}

Min(S) == CHOOSE x \in S : \A y \in S : x <= y

\* save_file: the line regenerated for an existing element whose line_content
\* differs from the line of the buffer
RegeneratedLine(original_line, nodes) ==
  LET m == element_pattern(original_line)
      node_ids == PadNodes(nodes)
  IN  RecordIndent \o C4Marker \o <<" ">> \o FmtInt(GroupInt(original_line, m, 1), 4)
      \o FmtInt(node_ids[1], 5) \o FmtInt(node_ids[2], 5) \o FmtInt(node_ids[3], 5)
      \o FmtInt(node_ids[4], 5) \o SliceFrom(original_line, m.g[5][2])

RECURSIVE RewriteExisting(_, _, _)
\* save_file, first loop; st = [elements, lines]
RewriteExisting(i, content, st) ==
  IF i > Len(st.elements) THEN st
  ELSE LET element == st.elements[i]
           k == PyIndex(content, element.line_number)
       IN  IF /\ element.line_number >= 0
              /\ content[k] # element.line_content
              /\ element_pattern(content[k]).ok
           THEN LET updated_line == RegeneratedLine(content[k], element.nodes)
                IN  RewriteExisting(i + 1, content,
                                    [elements |-> [st.elements EXCEPT ![i].line_content = updated_line],
                                     lines |-> [st.lines EXCEPT ![k] = updated_line]])
           ELSE RewriteExisting(i + 1, content, st)

\* save_file: the new interface elements, sorted by element id
NewInterfaceIds(es) ==
  SortedIds({es[i].element_id : i \in {j \in 1..Len(es) :
               es[j].type = "InterfaceElement" /\ es[j].line_number = -1}})

\* the position (1-based) of an id in a sequence of ids
PosIn(q, id) == CHOOSE i \in 1..Len(q) : q[i] = id

\* save_file: material ids 1, 2, ... given to the new interface elements in order
AssignInterfaceMaterials(es) ==
  LET ids == NewInterfaceIds(es)
  IN  [i \in 1..Len(es) |->
         IF es[i].element_id \in SeqRange(ids)
         THEN [es[i] EXCEPT !.material = PosIn(ids, es[i].element_id)]
         ELSE es[i]]

\* save_file: the D-1 / D-2 pairs of the interface materials
InterfaceMaterialLines(es) ==
  LET ids == NewInterfaceIds(es)
      pair(i) == LET e == ElementAt(es, ids[i])
                 IN  <<D1Line(e.material, i = Len(ids)), D2Line(e.angle, e.friction)>>
  IN  [k \in 1..2 * Len(ids) |-> pair((k + 1) \div 2)[2 - (k % 2)]]

\* save_file: insertion of the new node and element lines, with the last-record flags
InsertRecords(lines, new_node_lines, new_element_lines) ==
  IF new_node_lines = <<>> /\ new_element_lines = <<>> THEN lines
  ELSE
  LET elast == Indices([k \in 1..Len(lines) |-> ElementLastPattern(lines[k])])
      stop == IF elast = {} THEN Len(lines) ELSE Min(elast)
      nlast == {i \in Indices([k \in 1..Len(lines) |-> NodeLastPattern(lines[k])]) : i < stop}
      last_node_line == IF nlast = {} THEN -1 ELSE Max(nlast)
      found_element_line == IF elast = {} THEN -1 ELSE Min(elast)
      do_nodes == new_node_lines # <<>> /\ last_node_line >= 0
      n == Len(new_node_lines)
      l1 == IF do_nodes
            THEN LET a == [lines EXCEPT ![last_node_line + 1] = ReplaceAll(@, BangL, BangSp)]
                     b == InsertAt(a, last_node_line + 1, new_node_lines)
                 IN  [b EXCEPT ![last_node_line + n + 1] = ReplaceAll(@, BangSp, BangL)]
            ELSE lines
      last_element_line == IF do_nodes THEN found_element_line + n ELSE found_element_line
      k == Len(new_element_lines)
  IN  IF new_element_lines # <<>> /\ last_element_line >= 0
      THEN LET a == [l1 EXCEPT ![last_element_line + 1] = ReplaceAll(@, BangL, BangSp)]
               b == InsertAt(a, last_element_line + 1, new_element_lines)
           IN  [b EXCEPT ![last_element_line + k + 1] = ReplaceAll(@, BangSp, BangL)]
      ELSE l1

\* save_file: insertion of the interface material lines
InsertMaterialLines(lines, interface_material_lines) ==
  IF interface_material_lines = <<>> THEN lines
  ELSE
  LET IsD1(line) == Contains(line, D1Marker)
      IsC5(line) == SectionLastPattern(line, <<"C", "-", "5">>)
      IsC4(line) == SectionLastPattern(line, <<"C", "-", "4">>)
      d1_lines == Indices([k \in 1..Len(lines) |-> IsD1(lines[k])])
      d_lines == Indices([k \in 1..Len(lines) |-> ExistingDPattern(lines[k])])
      c5_lines == Indices([k \in 1..Len(lines) |-> IsC5(lines[k])])
      c4_lines == Indices([k \in 1..Len(lines) |-> IsC4(lines[k])])
      insertion_index == IF d_lines # {} THEN Max(d_lines)
                         ELSE IF c5_lines # {} THEN Min(c5_lines)
                         ELSE IF c4_lines # {} THEN Min(c4_lines)
                         ELSE -1
  IN  IF insertion_index < 0 THEN lines
      ELSE LET a == IF d1_lines # {}
                    THEN [lines EXCEPT ![Max(d1_lines) + 1] = ReplaceAll(@, BangL, BangSp)]
                    ELSE lines
           IN  InsertAt(a, insertion_index + 1, interface_material_lines)

(***************************************************************************)
(* _update_c2_line                                                         *)
(***************************************************************************)
\* the 5-character fields after the marker; a field is <<"int", n>> when its
\* stripped text is all digits and <<"str", text>> otherwise
C2Fields(remaining) ==
  [i \in 1..(Len(remaining) \div 5) |->
     LET field == Strip(SubSeq(remaining, 5 * i - 4, 5 * i))
     IN  IF IsDigitStr(field) THEN <<"int", DigitsVal(field)>> ELSE <<"str", field>>]

\* a header writer that left-justifies the counters as it does text
C2FieldTextLeft(field) == LJust(IF field[1] = "int" THEN IntStr(field[2]) ELSE field[2], 5)

\* f"{field:5d}" or f"{field:5s}"
C2FieldText(field) == IF field[1] = "int" THEN FmtInt(field[2], 5) ELSE LJust(field[2], 5)

RECURSIVE Concat(_)
Concat(parts) == IF parts = <<>> THEN <<>> ELSE Head(parts) \o Concat(Tail(parts))

MaxOr(S, default) == IF S = {} THEN default ELSE Max(S)

\* CandeModel._update_c2_line: the lines returned, and raised = TRUE where max()
\* compares a non-numeric field with an int (TypeError)
update_c2_line(lines, ns, es) ==
  LET IsC1(line) == Contains(line, C1Marker)
      c1 == Indices([k \in 1..Len(lines) |-> IsC1(lines[k])])
      c2_index == Min(c1) + 1
      c2_line == lines[c2_index + 1]
      prefix_end == FindFirst(c2_line, C2Marker) + Len(C2Marker)
      fields == C2Fields(SliceFrom(c2_line, prefix_end))
      same == [lines |-> lines, raised |-> FALSE]
  IN  IF c1 = {} \/ Min(c1) + 1 >= Len(lines) THEN same
      ELSE IF ~Contains(c2_line, C2Marker) THEN same
      ELSE IF Len(fields) < 10 THEN same
      ELSE IF \E i \in {1, 9, 10} : fields[i][1] # "int" THEN [lines |-> lines, raised |-> TRUE]
      ELSE
      LET max_step == MaxOr({es[i].step : i \in 1..Len(es)}, 1)
          soil_materials == MaxOr({es[i].material : i \in {j \in 1..Len(es) :
                                     es[j].type # "InterfaceElement"}}, 0)
          interface_materials == MaxOr({es[i].material : i \in {j \in 1..Len(es) :
                                          es[j].type = "InterfaceElement"}}, 0)
          new_fields == [fields EXCEPT
                           ![1] = <<"int", Max({@[2], max_step})>>,
                           ![6] = <<"int", Len(ns)>>,
                           ![7] = <<"int", Len(es)>>,
                           ![9] = <<"int", Max({@[2], soil_materials})>>,
                           ![10] = <<"int", Max({@[2], interface_materials})>>]
          new_c2_line == Slice(c2_line, 0, prefix_end)
                         \o Concat([i \in 1..Len(new_fields) |-> C2FieldText(new_fields[i])])
                         \o (IF c2_line[Len(c2_line)] = "\n" THEN NL ELSE <<>>)
      IN  [lines |-> [lines EXCEPT ![c2_index + 1] = new_c2_line], raised |-> FALSE]

\* CandeModel.save_file: the elements it leaves in memory, the lines it hands to
\* writelines, and whether an exception left it before the write
save_file(ns, es, content) ==
  LET st1 == RewriteExisting(1, content, [elements |-> es, lines |-> content])
      new_node_lines == [i \in 1..Cardinality({j \in 1..Len(ns) : ns[j].line_number = -1}) |->
                           generate_node_line(ns[CHOOSE j \in 1..Len(ns) :
                              /\ ns[j].line_number = -1
                              /\ Cardinality({h \in 1..j : ns[h].line_number = -1}) = i])]
      plain == {j \in 1..Len(es) : es[j].line_number = -1 /\ es[j].type # "InterfaceElement"}
      new_plain_lines == [i \in 1..Cardinality(plain) |->
                            generate_element_line(es[CHOOSE j \in plain :
                               Cardinality({h \in plain : h <= j}) = i])]
      written(es2, c2) == [elements |-> es2, lines |-> c2.lines, raised |-> c2.raised]
      new_element_lines(es2, ids) ==
        new_plain_lines
        \o [i \in 1..Len(ids) |-> generate_element_line(ElementAt(es2, ids[i]))]
      inserted(lines, es2) ==
        LET l2 == InsertRecords(lines, new_node_lines,
                                new_element_lines(es2, NewInterfaceIds(es2)))
            l3 == InsertMaterialLines(l2, InterfaceMaterialLines(es2))
        IN  written(es2, update_c2_line(l3, ns, es2))
      rewritten(st) == inserted(st.lines, AssignInterfaceMaterials(st.elements))
  IN  rewritten(st1)

(***************************************************************************)
(* CanvasView: the view transform and the click hit test.  zoom_level and  *)
(* the pan offsets are floats in the code; here they are exact fractions   *)
(* over one denominator, and a model coordinate computed from a pixel is a *)
(* fraction <<numerator, denominator>> of thousandths.                     *)
(***************************************************************************)
\* canvas.winfo_width() and canvas.winfo_height(), in pixels
CanvasWidth == 110
CanvasHeight == 110

RECURSIVE GCD(_, _)
GCD(a, b) == IF b = 0 THEN Abs(a) ELSE GCD(b, a % Abs(b))

RECURSIVE GCDOf(_)
GCDOf(q) == IF q = <<>> THEN 0 ELSE GCD(Head(q), GCDOf(Tail(q)))

\* a fraction in lowest terms with a positive denominator
Frac(n, d) == <<n \div GCD(n, d), d \div GCD(n, d)>>

FracLe(p, q) == p[1] * q[2] <= q[1] * p[2]

\* CanvasView.__init__: zoom_level = 1.0, pan_offset_x = pan_offset_y = 0
InitialView == [zoom_level |-> 1, pan_offset_x |-> 0, pan_offset_y |-> 0, den |-> 1]

\* CanvasView.zoom_to_fit on the extents (min_x, min_y, max_x, max_y) of the model
zoom_to_fit(view, ext) ==
  LET model_width == ext[3] - ext[1]
      model_height == ext[4] - ext[2]
      \* canvas_width / (model_width * (1 + padding * 2)), model_width in thousandths
      zoom_x == IF model_width > 0 THEN Frac(CanvasWidth * 10000, 11 * model_width) ELSE <<1, 1>>
      zoom_y == IF model_height > 0 THEN Frac(CanvasHeight * 10000, 11 * model_height) ELSE <<1, 1>>
      zoom == IF FracLe(zoom_x, zoom_y) THEN zoom_x ELSE zoom_y
      d == 2000 * zoom[2]
      z == 2000 * zoom[1]
      px == 1000 * CanvasWidth * zoom[2] - (ext[1] + ext[3]) * zoom[1]
      py == 1000 * CanvasHeight * zoom[2] + (ext[2] + ext[4]) * zoom[1]
      g == GCDOf(<<d, z, px, py>>)
  IN  IF CanvasWidth < 10 \/ CanvasHeight < 10 THEN view
      ELSE [zoom_level |-> z \div g, pan_offset_x |-> px \div g, pan_offset_y |-> py \div g,
            den |-> d \div g]

\* CanvasView.screen_to_model: the model coordinates of a pixel, each a fraction
\* of thousandths
screen_to_model(view, screen_x, screen_y) ==
  <<Frac(1000 * (screen_x * view.den - view.pan_offset_x), view.zoom_level),
    Frac(1000 * ((CanvasHeight - screen_y) * view.den - view.pan_offset_y), view.zoom_level)>>

\* the denominator of the screen coordinates model_to_screen returns
ScreenScale(view) == 2000 * view.den

\* CanvasView.model_to_screen of the point (x2 / 2000, y2 / 2000), in pixels times
\* ScreenScale
model_to_screen(view, x2, y2) ==
  <<x2 * view.zoom_level + 2000 * view.pan_offset_x,
    ScreenScale(view) * CanvasHeight - (y2 * view.zoom_level + 2000 * view.pan_offset_y)>>

\* CanvasView.point_in_polygon on integer coordinates: the ray casting loop, with
\* x <= xinters compared after multiplying by p2y - p1y
RECURSIVE RayCast(_, _, _, _, _)
RayCast(x, y, polygon, i, inside) ==
  IF i > Len(polygon) THEN inside
  ELSE LET p1 == polygon[i]
           p2 == polygon[(i % Len(polygon)) + 1]
           dy == p2[2] - p1[2]
           below == IF dy > 0 THEN (x - p1[1]) * dy <= (y - p1[2]) * (p2[1] - p1[1])
                    ELSE (x - p1[1]) * dy >= (y - p1[2]) * (p2[1] - p1[1])
           crosses == /\ y > Min({p1[2], p2[2]})
                      /\ y <= Max({p1[2], p2[2]})
                      /\ x <= Max({p1[1], p2[1]})
                      /\ (p1[1] = p2[1] \/ below)
       IN  RayCast(x, y, polygon, i + 1, IF crosses THEN ~inside ELSE inside)

point_in_polygon(x, y, polygon) == RayCast(x, y, polygon, 1, FALSE)

\* CanvasView.point_near_line on integer coordinates: the distance from (x, y) to
\* the closest point of the segment is at most threshold
point_near_line(x, y, line_start, line_end, threshold) ==
  LET dx == line_end[1] - line_start[1]
      dy == line_end[2] - line_start[2]
      px == x - line_start[1]
      py == y - line_start[2]
      length2 == dx * dx + dy * dy
      projection == px * dx + py * dy
      cross == px * dy - py * dx
  IN  IF length2 = 0 \/ projection <= 0 THEN px * px + py * py <= threshold * threshold
      ELSE IF projection >= length2
      THEN (x - line_end[1]) * (x - line_end[1]) + (y - line_end[2]) * (y - line_end[2])
           <= threshold * threshold
      ELSE /\ Abs(cross) <= threshold * (Abs(dx) + Abs(dy))
           /\ cross * cross <= threshold * threshold * length2

\* the nodes of an element that are in the mesh: [nodes[node_id] for node_id in
\* element.nodes if node_id in nodes]
ElementNodes(ns, element) ==
  LET ids == FilterIn(element.nodes, NodeIds(ns))
  IN  [i \in 1..Len(ids) |-> NodeAt(ns, ids[i])]

\* find_element_at_position: whether the element is hit at the pixel
HitAt(view, screen_x, screen_y, ns, element, line_width) ==
  LET element_nodes == ElementNodes(ns, element)
      at(i) == model_to_screen(view, 2 * element_nodes[i].x, 2 * element_nodes[i].y)
      \* sum(node.x for node in element_nodes[:2]) and the same of node.y
      sum2 == IF element_nodes = <<>> THEN <<0, 0>>
              ELSE IF Len(element_nodes) = 1 THEN <<element_nodes[1].x, element_nodes[1].y>>
              ELSE <<element_nodes[1].x + element_nodes[2].x,
                     element_nodes[1].y + element_nodes[2].y>>
      marker == model_to_screen(view, sum2[1], sum2[2])
      s == ScreenScale(view)
      near(a, b, threshold) ==
        LET g == GCDOf(<<s, a[1], a[2], b[1], b[2]>>)
        IN  point_near_line((screen_x * s) \div g, (screen_y * s) \div g,
                            <<a[1] \div g, a[2] \div g>>, <<b[1] \div g, b[2] \div g>>,
                            (threshold * s) \div g)
      model == screen_to_model(view, screen_x, screen_y)
      \* the point and the polygon over the common denominator of the point
      m == model[1][2] * model[2][2]
      scaled == <<model[1][1] * model[2][2], model[2][1] * model[1][2]>>
                \o Concat([i \in 1..Len(element_nodes) |->
                             <<element_nodes[i].x * m, element_nodes[i].y * m>>])
      g2 == Max({1, GCDOf(scaled)})
      polygon == [i \in 1..Len(element_nodes) |->
                    <<(element_nodes[i].x * m) \div g2, (element_nodes[i].y * m) \div g2>>]
  IN  IF element.type = "Element1D" /\ Len(element_nodes) = 2
      THEN near(at(1), at(2), line_width * 2)
      ELSE IF element.type = "InterfaceElement" THEN near(marker, marker, 10)
      ELSE /\ Len(element_nodes) >= 3
           /\ point_in_polygon(scaled[1] \div g2, scaled[2] \div g2, polygon)

\* CanvasView.find_element_at_position: None, or the id of the first element of
\* the mesh that is hit
find_element_at_position(view, screen_x, screen_y, ns, es, element_type_filter, line_width) ==
  LET skipped(element) ==
        /\ element_type_filter.kind = "str"
        /\ \/ element_type_filter.names[1] = "1D" /\ element.type # "Element1D"
           \/ element_type_filter.names[1] = "2D" /\ element.type # "Element2D"
      hits == {i \in 1..Len(es) : /\ ~skipped(es[i])
                                  /\ HitAt(view, screen_x, screen_y, ns, es[i], line_width)}
  IN  IF hits = {} THEN None ELSE Some(es[Min(hits)].element_id)

(***************************************************************************)
(* CandeController: the display filter and the canvas gestures             *)
(***************************************************************************)
\* CandeController.element_matches_filter: "not self.element_type_filter" holds
\* of None as well as of the empty list
controller_element_matches_filter(element_type_filter, element) ==
  IF element_type_filter.kind = "none" \/ element_type_filter.names = <<>> THEN FALSE
  ELSE \E i \in 1..Len(element_type_filter.names) :
         element_matches_filter(element, element_type_filter.names[i])

\* min_x <= node.x <= max_x and min_y <= node.y <= max_y, the bounds being fractions
InLasso(node, min_x, min_y, max_x, max_y) ==
  /\ FracLe(min_x, <<node.x, 1>>) /\ FracLe(<<node.x, 1>>, max_x)
  /\ FracLe(min_y, <<node.y, 1>>) /\ FracLe(<<node.y, 1>>, max_y)

\* CandeController._find_elements_in_lasso
find_elements_in_lasso(ns, es, element_type_filter, direction, min_x, min_y, max_x, max_y) ==
  LET inside(node) == InLasso(node, min_x, min_y, max_x, max_y)
      is_inside(element_nodes) ==
        IF direction = "LEFT_TO_RIGHT"
        THEN \A i \in 1..Len(element_nodes) : inside(element_nodes[i])
        ELSE \E i \in 1..Len(element_nodes) : inside(element_nodes[i])
  IN  {es[i].element_id : i \in {j \in 1..Len(es) :
         /\ controller_element_matches_filter(element_type_filter, es[j])
         /\ ElementNodes(ns, es[j]) # <<>>
         /\ is_inside(ElementNodes(ns, es[j]))}}

\* CandeController.on_canvas_release while dragging: the selection it leaves.
\* c = [selection_mode, lasso_direction, drag_start_x, drag_start_y,
\* element_type_filter, view]
on_canvas_release(ns, es, selected, c, x, y, line_width) ==
  LET min_x == Min({c.drag_start_x, x})
      max_x == Max({c.drag_start_x, x})
      min_y == Min({c.drag_start_y, y})
      max_y == Max({c.drag_start_y, y})
      low == screen_to_model(c.view, min_x, min_y)     \* model_min_x, model_max_y
      high == screen_to_model(c.view, max_x, max_y)    \* model_max_x, model_min_y
      is_click == Abs(x - c.drag_start_x) < 5 /\ Abs(y - c.drag_start_y) < 5
      element_id == find_element_at_position(c.view, x, y, ns, es, c.element_type_filter,
                                             line_width)
      hit == IF is_click THEN SeqRange(element_id)
             ELSE find_elements_in_lasso(ns, es, c.element_type_filter, c.lasso_direction,
                                         low[1], high[2], high[1], low[2])
      applied == IF hit = {} THEN selected
                 ELSE IF c.selection_mode = "NEW" THEN hit
                 ELSE IF c.selection_mode = "ADD" THEN selected \cup hit
                 ELSE IF c.selection_mode = "REMOVE" THEN selected \ hit
                 ELSE selected
  IN  IF c.selection_mode = "NEW" /\ hit = {} THEN {} ELSE applied

(***************************************************************************)
(* Input files.  Records are laid out in the column format the editor      *)
(* itself writes (19 blanks, marker, flag, 4-column id, 5-column fields).  *)
(***************************************************************************)
InNodeLine(last, id, x, y) ==
  RecordIndent \o C3Marker \o <<IF last THEN "L" ELSE " ">> \o FmtInt(id, 4)
  \o <<" ", " ", "0", "0", "0">> \o FmtFloat3(x, 10) \o FmtFloat3(y, 10) \o NL

InElementLine(last, id, n, material, step, class) ==
  RecordIndent \o C4Marker \o <<IF last THEN "L" ELSE " ">> \o FmtInt(id, 4)
  \o FmtInt(n[1], 5) \o FmtInt(n[2], 5) \o FmtInt(n[3], 5) \o FmtInt(n[4], 5)
  \o FmtInt(material, 5) \o FmtInt(step, 5) \o FmtInt(class, 5) \o NL

\* an element record whose line ends after the step field
InElementLineNoClass(last, id, n, material, step) ==
  RecordIndent \o C4Marker \o <<IF last THEN "L" ELSE " ">> \o FmtInt(id, 4)
  \o FmtInt(n[1], 5) \o FmtInt(n[2], 5) \o FmtInt(n[3], 5) \o FmtInt(n[4], 5)
  \o FmtInt(material, 5) \o FmtInt(step, 5) \o NL

InHeader(f) ==
  <<RecordIndent \o C1Marker \o <<"P", "R", "E", "P">> \o NL,
    RecordIndent \o C2Marker \o Concat([i \in 1..Len(f) |-> FmtInt(f[i], 5)]) \o NL>>

InBoundaryLine == RecordIndent \o <<"C", "-", "5", ".", "L", "3", "!", "!", "L">> \o FmtInt(1, 5) \o NL

InStopLine == <<"S", "T", "O", "P">> \o NL

\* a portal of three beams 1-2-3-4 and a brace 3-1 around one quad; the quad
\* carries the last-record flag
FileOpenChain ==
  InHeader(<<2, 0, 0, 0, 0, 4, 5, 0, 2, 0>>)
  \o <<InNodeLine(FALSE, 1, 0, 0), InNodeLine(FALSE, 2, 0, 2000),
       InNodeLine(FALSE, 3, 2000, 2000), InNodeLine(TRUE, 4, 2000, 0),
       InElementLine(FALSE, 1, <<1, 2, 0, 0>>, 1, 1, 0),
       InElementLine(FALSE, 2, <<2, 3, 0, 0>>, 1, 2, 0),
       InElementLine(FALSE, 3, <<3, 4, 0, 0>>, 2, 2, 0),
       InElementLine(FALSE, 4, <<3, 1, 0, 0>>, 2, 1, 0),
       InElementLine(TRUE, 5, <<1, 4, 3, 2>>, 1, 1, 0),
       InBoundaryLine, InStopLine>>

\* a closed ring of three beams around one triangle written clockwise; the
\* last beam carries the last-record flag
FileRing ==
  InHeader(<<1, 0, 0, 0, 0, 3, 4, 0, 2, 0>>)
  \o <<InNodeLine(FALSE, 1, 0, 0), InNodeLine(FALSE, 2, 2000, 0), InNodeLine(TRUE, 3, 0, 2000),
       InElementLine(FALSE, 1, <<1, 3, 2, 0>>, 1, 1, 0),
       InElementLine(FALSE, 2, <<1, 2, 0, 0>>, 1, 1, 0),
       InElementLine(FALSE, 3, <<2, 3, 0, 0>>, 1, 1, 0),
       InElementLine(TRUE, 4, <<3, 1, 0, 0>>, 2, 1, 0),
       InStopLine>>

\* the portal again, with an interface element already at node 2 and its material records
FileWithInterface ==
  InHeader(<<2, 0, 0, 0, 0, 6, 5, 0, 2, 1>>)
  \o <<InNodeLine(FALSE, 1, 0, 0), InNodeLine(FALSE, 2, 0, 2000),
       InNodeLine(FALSE, 3, 2000, 2000), InNodeLine(FALSE, 4, 2000, 0),
       InNodeLine(FALSE, 5, 0, 2000), InNodeLine(TRUE, 6, 0, 2000),
       InElementLine(FALSE, 1, <<1, 2, 0, 0>>, 1, 1, 0),
       InElementLine(FALSE, 2, <<2, 3, 0, 0>>, 1, 2, 0),
       InElementLine(FALSE, 3, <<3, 4, 0, 0>>, 2, 2, 0),
       InElementLine(FALSE, 4, <<1, 4, 3, 2>>, 1, 1, 0),
       InElementLine(TRUE, 5, <<5, 2, 6, 0>>, 1, 1, 1),
       InBoundaryLine, D1Line(1, TRUE), D2Line(135000, 300), InStopLine>>

\* two beams along two sides of one triangle; the second header field is the
\* integer -1
FileSignedHeader ==
  InHeader(<<1, -1, 0, 0, 0, 3, 3, 0, 1, 0>>)
  \o <<InNodeLine(FALSE, 1, 0, 0), InNodeLine(FALSE, 2, 2000, 0), InNodeLine(TRUE, 3, 0, 2000),
       InElementLine(FALSE, 1, <<1, 2, 0, 0>>, 1, 1, 0),
       InElementLine(FALSE, 2, <<2, 3, 0, 0>>, 1, 1, 0),
       InElementLine(TRUE, 3, <<1, 2, 3, 0>>, 1, 1, 0),
       InStopLine>>

\* the same mesh with a plain header; the record of beam 2 has material 0
FileZeroMaterial ==
  InHeader(<<1, 0, 0, 0, 0, 3, 3, 0, 1, 0>>)
  \o <<InNodeLine(FALSE, 1, 0, 0), InNodeLine(FALSE, 2, 2000, 0), InNodeLine(TRUE, 3, 0, 2000),
       InElementLine(FALSE, 1, <<1, 2, 0, 0>>, 1, 1, 0),
       InElementLine(FALSE, 2, <<2, 3, 0, 0>>, 0, 1, 0),
       InElementLine(TRUE, 3, <<1, 2, 3, 0>>, 1, 1, 0),
       InStopLine>>

\* the same mesh; the record of beam 2 has no element-class field
FileNoClass ==
  InHeader(<<1, 0, 0, 0, 0, 3, 3, 0, 1, 0>>)
  \o <<InNodeLine(FALSE, 1, 0, 0), InNodeLine(FALSE, 2, 2000, 0), InNodeLine(TRUE, 3, 0, 2000),
       InElementLine(FALSE, 1, <<1, 2, 0, 0>>, 1, 1, 0),
       InElementLineNoClass(FALSE, 2, <<2, 3, 0, 0>>, 1, 1),
       InElementLine(TRUE, 3, <<1, 2, 3, 0>>, 1, 1, 0),
       InStopLine>>

\* three beams in one straight line, 1-2-3-4 with node 2 midway between 1 and 3,
\* under one triangle
FileStraight ==
  InHeader(<<2, 0, 0, 0, 0, 5, 4, 0, 1, 0>>)
  \o <<InNodeLine(FALSE, 1, 0, 0), InNodeLine(FALSE, 2, 1000, 0), InNodeLine(FALSE, 3, 2000, 0),
       InNodeLine(FALSE, 4, 4000, 0), InNodeLine(TRUE, 5, 2000, 1000),
       InElementLine(FALSE, 1, <<1, 2, 0, 0>>, 1, 1, 0),
       InElementLine(FALSE, 2, <<2, 3, 0, 0>>, 1, 1, 0),
       InElementLine(FALSE, 3, <<3, 4, 0, 0>>, 2, 2, 0),
       InElementLine(TRUE, 4, <<2, 3, 5, 0>>, 1, 1, 0),
       InStopLine>>

\* one triangle written clockwise, whose record comes before the record of its
\* third node
FileLateNode ==
  InHeader(<<1, 0, 0, 0, 0, 3, 1, 0, 1, 0>>)
  \o <<InNodeLine(FALSE, 1, 0, 0), InNodeLine(FALSE, 2, 0, 2000),
       InElementLine(TRUE, 1, <<1, 2, 3, 0>>, 1, 1, 0),
       InNodeLine(TRUE, 3, 2000, 0),
       InStopLine>>

\* two beams that join the same two nodes, 1-2 and 2-1, along one side of a triangle
FileTwinBeams ==
  InHeader(<<1, 0, 0, 0, 0, 3, 3, 0, 1, 0>>)
  \o <<InNodeLine(FALSE, 1, 0, 0), InNodeLine(FALSE, 2, 2000, 0), InNodeLine(TRUE, 3, 0, 2000),
       InElementLine(FALSE, 1, <<1, 2, 0, 0>>, 1, 1, 0),
       InElementLine(FALSE, 2, <<2, 1, 0, 0>>, 1, 1, 0),
       InElementLine(TRUE, 3, <<1, 2, 3, 0>>, 1, 1, 0),
       InStopLine>>

\* that file with every line ended by CR LF
FileCRLF ==
  [i \in 1..Len(FileTwinBeams) |->
     SubSeq(FileTwinBeams[i], 1, Len(FileTwinBeams[i]) - 1) \o CRLF]

Files == <<FileOpenChain, FileRing, FileWithInterface, FileSignedHeader, FileZeroMaterial,
           FileNoClass, FileStraight, FileLateNode, FileCRLF>>

\* the values offered to the operations
SelectMaterials == {1, 2}
SelectSteps == {2}
SelectFilters == {NoFilter, OneFilter("1D")}
AssignArgs == {<<Some(7), None>>, <<None, Some(3)>>, <<Some(10000), Some(7)>>}
AssignFilters == {NoFilter, OneFilter("1D"), ListFilter(<<"2D", "Interface">>)}
\* a material and a step whose decimal texts, "123456" and "-12345", are longer
\* than the field
LongAssignArgs == {<<Some(123456), Some(-12345)>>}
AssignCalls == (AssignArgs \X AssignFilters) \cup (LongAssignArgs \X {NoFilter})
Frictions == {250}
FrictionTexts == {<<"0", ".", "2", "5">>, <<"1", ".", "5">>}

\* operations performed after a load
MaxOps == 4

\* the files opened in the window, the types checked for display, the pixels of
\* the mouse events (a press falls inside the widget, motion and release may
\* leave it), and the line width set in the window
CanvasFiles == {1, 3}
TypeChoices == {<<"1D", "2D", "Interface">>, <<"2D">>, <<>>}
Modifiers == {"none", "ctrl", "shift"}
PressPoints == {<<0, 50>>, <<109, 50>>, <<55, 5>>}
MotionPoints == {<<109, -100>>, <<50, -100>>}
ReleasePoints == {<<109, -100>>, <<50, -100>>, <<55, 5>>, <<55, 3>>}
LineWidths == {3}
\* the texts of the material and step entry boxes
AssignTexts == {<<<<"0">>, <<>>>>, <<<<>>, <<"-", "1">>>>, <<<<"7">>, <<"x">>>>}

\* commands and mouse events after a file is opened
MaxEvents == 6

(***************************************************************************)
(* The state of one CandeModel, and what its last operation returned       *)
(***************************************************************************)
VARIABLES file_content, nodes, elements, selected_elements, max_material, max_step,
          extents, filepath, mutated, ops, last

\* the state of the CandeController and of its CanvasView, and the mouse button
\* as the window system holds it: pressed = [down, canvas, modifier, x, y] is the
\* last press of button 1, on the canvas or on another widget of the window
VARIABLES selection_mode, lasso_direction, is_dragging, drag_start_x, drag_start_y,
          element_type_filter, view, pressed

ctlvars == <<selection_mode, lasso_direction, is_dragging, drag_start_x, drag_start_y,
             element_type_filter, view, pressed>>

vars == <<file_content, nodes, elements, selected_elements, max_material, max_step,
          extents, filepath, mutated, ops, last, selection_mode, lasso_direction, is_dragging,
          drag_start_x, drag_start_y, element_type_filter, view, pressed>>

NoPre == [nodes |-> <<>>, elements |-> <<>>, content |-> <<>>, selected |-> {}]

Pre == [nodes |-> nodes, elements |-> elements, content |-> file_content,
        selected |-> selected_elements]

\* the record of an operation: its name and arguments, the state it started
\* from, and what it returned or wrote
Did(op) == [op |-> op, ok |-> TRUE, count |-> 0, flag |-> FALSE, raised |-> FALSE,
            created |-> <<>>, written |-> <<>>, disk |-> <<>>, pre |-> NoPre,
            material |-> None, step |-> None, filter |-> NoFilter, message |-> NoMessage,
            event |-> <<>>]

\* CandeModel.__init__
Init ==
  /\ file_content = <<>>
  /\ nodes = <<>>
  /\ elements = <<>>
  /\ selected_elements = {}
  /\ max_material = 1
  /\ max_step = 1
  /\ extents = <<0, 0, 0, 0>>
  /\ filepath = 0
  /\ mutated = FALSE
  /\ ops = 0
  /\ last = Did("init")
  /\ selection_mode = "NONE"
  /\ lasso_direction = "LEFT_TO_RIGHT"
  /\ is_dragging = FALSE
  /\ drag_start_x = 0
  /\ drag_start_y = 0
  /\ element_type_filter = NoFilter
  /\ view = InitialView
  /\ pressed = [down |-> FALSE, canvas |-> FALSE, modifier |-> "none", x |-> 0, y |-> 0]

\* CandeModel.calculate_model_extents: (min_x, min_y, max_x, max_y)
calculate_model_extents(ns, old) ==
  IF ns = <<>> THEN old
  ELSE <<Min({ns[i].x : i \in 1..Len(ns)}), Min({ns[i].y : i \in 1..Len(ns)}),
         Max({ns[i].x : i \in 1..Len(ns)}), Max({ns[i].y : i \in 1..Len(ns)})>>

\* CandeModel.load_file on the f-th input file; io_ok is whether open() and
\* readlines() succeed; raised is whether parse_cande_file left by an exception.
\* A file is opened before the editing of it starts.
load_file(f, io_ok) ==
  /\ ops = 0
  /\ \E parsed \in {parse_cande_file(readlines(Files[f]), max_material, max_step)} :
      /\ IF io_ok
         THEN /\ file_content' = readlines(Files[f])
              /\ filepath' = f
              /\ nodes' = parsed.nodes
              /\ elements' = parsed.elements
              /\ max_material' = parsed.max_material
              /\ max_step' = parsed.max_step
              /\ extents' = IF parsed.ok THEN calculate_model_extents(parsed.nodes, extents)
                            ELSE extents
              /\ selected_elements' = IF parsed.ok THEN {} ELSE selected_elements
              /\ last' = [Did("load") EXCEPT !.ok = parsed.ok, !.raised = ~parsed.ok]
         ELSE /\ last' = [Did("load") EXCEPT !.ok = FALSE]
              /\ UNCHANGED <<file_content, filepath, nodes, elements, max_material, max_step,
                             extents, selected_elements>>
      /\ mutated' = FALSE
      /\ ops' = 0

\* a file is loaded into the model
Load(f, io_ok) == load_file(f, io_ok) /\ UNCHANGED ctlvars

\* CandeModel.select_elements_by_material
SelectByMaterial(material, filter) ==
  LET hit == select_elements_by_material(elements, material, filter)
  IN  /\ ops < MaxOps
      /\ selected_elements' = selected_elements \cup hit
      /\ ops' = ops + 1
      /\ last' = [Did("select_by_material") EXCEPT !.count = Cardinality(hit),
                                                   !.material = Some(material), !.filter = filter]
      /\ UNCHANGED <<file_content, nodes, elements, max_material, max_step, extents,
                     filepath, mutated>>
      /\ UNCHANGED ctlvars

\* CandeModel.select_elements_by_step
SelectByStep(step, filter) ==
  LET hit == select_elements_by_step(elements, step, filter)
  IN  /\ ops < MaxOps
      /\ selected_elements' = selected_elements \cup hit
      /\ ops' = ops + 1
      /\ last' = [Did("select_by_step") EXCEPT !.count = Cardinality(hit),
                                               !.step = Some(step), !.filter = filter]
      /\ UNCHANGED <<file_content, nodes, elements, max_material, max_step, extents,
                     filepath, mutated>>
      /\ UNCHANGED ctlvars

\* CandeModel.clear_selection
ClearSelection ==
  /\ ops < MaxOps
  /\ selected_elements # {}
  /\ selected_elements' = {}
  /\ ops' = ops + 1
  /\ last' = Did("clear_selection")
  /\ UNCHANGED <<file_content, nodes, elements, max_material, max_step, extents,
                 filepath, mutated>>
  /\ UNCHANGED ctlvars

\* CandeModel.update_elements on the current selection
Assign(material, step, filter) ==
  /\ ops < MaxOps
  /\ \E r \in {update_elements(elements, file_content, selected_elements, material, step, filter)} :
      /\ elements' = r.elements
      /\ file_content' = r.content
      /\ mutated' = TRUE
      /\ ops' = ops + 1
      /\ last' = [Did("assign") EXCEPT !.count = r.count, !.pre = Pre, !.material = material,
                                       !.step = step, !.filter = filter]
      /\ UNCHANGED <<nodes, selected_elements, max_material, max_step, extents, filepath>>
  /\ UNCHANGED ctlvars

\* CandeModel.create_interfaces on the current selection
CreateInterfaces(friction) ==
  /\ ops < MaxOps
  /\ \E r \in {create_interfaces(nodes, elements, file_content, selected_elements, friction)} :
      /\ nodes' = r.nodes
      /\ elements' = r.elements
      /\ mutated' = TRUE
      /\ ops' = ops + 1
      /\ last' = [Did("create_interfaces") EXCEPT !.count = r.count, !.flag = r.flag,
                                                  !.raised = r.raised, !.created = r.created,
                                                  !.pre = Pre]
      /\ UNCHANGED <<file_content, selected_elements, max_material, max_step, extents, filepath>>
  /\ UNCHANGED ctlvars

\* the create-interfaces command of the controller on the current selection
CommandCreateInterfaces(text) ==
  /\ ops < MaxOps
  /\ \E r \in {controller_create_interfaces(nodes, elements, file_content, selected_elements, text)} :
      /\ nodes' = r.nodes
      /\ elements' = r.elements
      /\ mutated' = (mutated \/ r.called)
      /\ ops' = ops + 1
      /\ last' = [Did("command_create_interfaces") EXCEPT
                    !.count = r.count, !.flag = r.flag, !.raised = r.raised,
                    !.created = r.created, !.pre = Pre, !.message = r.message]
      /\ UNCHANGED <<file_content, selected_elements, max_material, max_step, extents, filepath>>
  /\ UNCHANGED ctlvars

\* CandeModel.save_file; io_ok is whether open() and writelines() succeed, linesep
\* the os.linesep of the build
Save ==
  /\ ops < MaxOps
  /\ \E r \in {save_file(nodes, elements, file_content)} :
      \E io_ok \in BOOLEAN, linesep \in LineSeps :
        /\ ops' = ops + 1
        /\ IF file_content = <<>>
           THEN /\ last' = [Did("save") EXCEPT !.ok = FALSE]
                /\ UNCHANGED elements
           ELSE /\ elements' = r.elements
                /\ last' = [Did("save") EXCEPT !.ok = io_ok /\ ~r.raised, !.raised = r.raised,
                                               !.written = IF io_ok /\ ~r.raised THEN r.lines ELSE <<>>,
                                               !.disk = IF io_ok /\ ~r.raised
                                                        THEN writelines(r.lines, linesep) ELSE <<>>,
                                               !.pre = Pre]
        /\ UNCHANGED <<file_content, nodes, selected_elements, max_material, max_step, extents,
                       filepath, mutated>>
        /\ UNCHANGED ctlvars

Next ==
  \/ \E f \in 1..Len(Files), io_ok \in BOOLEAN : Load(f, io_ok)
  \/ \E m \in SelectMaterials, f \in SelectFilters : SelectByMaterial(m, f)
  \/ \E s \in SelectSteps, f \in SelectFilters : SelectByStep(s, f)
  \/ ClearSelection
  \/ \E call \in AssignCalls : Assign(call[1][1], call[1][2], call[2])
  \/ \E fr \in Frictions : CreateInterfaces(fr)
  \/ \E text \in FrictionTexts : CommandCreateInterfaces(text)
  \/ Save

Spec == Init /\ [][Next]_vars

(***************************************************************************)
(* The commands and mouse events of the window.  A press of button 1 runs  *)
(* the binding of the canvas (<Button-1>) when it falls on the canvas, and  *)
(* then the binding of the root window for its modifier                    *)
(* (<Control-Button-1>, <Shift-Button-1>) on whatever widget it falls;     *)
(* motion and release are delivered to the widget of the press.            *)
(***************************************************************************)
\* the state the canvas handlers read
Controller == [selection_mode |-> selection_mode, lasso_direction |-> lasso_direction,
               drag_start_x |-> drag_start_x, drag_start_y |-> drag_start_y,
               element_type_filter |-> element_type_filter, view |-> view]

\* CandeController.open_file on the f-th input file
OpenFile(f, io_ok) ==
  /\ load_file(f, io_ok)
  /\ view' = IF last'.ok THEN zoom_to_fit(view, extents') ELSE view
  /\ element_type_filter' = IF last'.ok THEN NoFilter ELSE element_type_filter
  /\ UNCHANGED <<selection_mode, lasso_direction, is_dragging, drag_start_x, drag_start_y,
                 pressed>>

\* CandeController.on_element_type_change with the types checked in the window
ElementTypeChange(selected_types) ==
  /\ ops < MaxEvents
  /\ element_type_filter' = ListFilter(selected_types)
  /\ ops' = ops + 1
  /\ last' = Did("element_type_change")
  /\ UNCHANGED <<file_content, nodes, elements, selected_elements, max_material, max_step,
                 extents, filepath, mutated, selection_mode, lasso_direction, is_dragging,
                 drag_start_x, drag_start_y, view, pressed>>

\* int(text) for the texts of the entry boxes: [ok, value], ok FALSE where
\* ValueError is raised
PyInt(text) ==
  IF IsDigitStr(text) THEN [ok |-> TRUE, value |-> DigitsVal(text)]
  ELSE IF Len(text) > 1 /\ Head(text) \in {"-", "+"} /\ IsDigitStr(Tail(text))
  THEN [ok |-> TRUE, value |-> IF Head(text) = "-" THEN -DigitsVal(Tail(text))
                               ELSE DigitsVal(Tail(text))]
  ELSE [ok |-> FALSE, value |-> 0]

NoSelectionMessage == "No elements selected"
NothingToAssignMessage == "Please enter a material number or step number to assign"
InvalidNumbersMessage == "Please enter valid numbers"
AssignedMessage == "Assigned {msg_parts} to {updated_count} elements"

\* CandeController.assign_to_selection with the texts of the material and step
\* entry boxes
AssignToSelection(material_str, step_str) ==
  /\ ops < MaxEvents
  /\ ops' = ops + 1
  /\ LET material == IF material_str # <<>> THEN Some(PyInt(material_str).value) ELSE None
         step == IF step_str # <<>> THEN Some(PyInt(step_str).value) ELSE None
         reported(message) == [Did("assign_to_selection") EXCEPT !.message = message,
                                                                 !.pre = Pre]
     IN  IF selected_elements = {}
         THEN /\ last' = reported(NoSelectionMessage)
              /\ UNCHANGED <<elements, file_content, mutated>>
         ELSE IF \/ material_str # <<>> /\ ~PyInt(material_str).ok
                 \/ step_str # <<>> /\ ~PyInt(step_str).ok
         THEN /\ last' = reported(InvalidNumbersMessage)
              /\ UNCHANGED <<elements, file_content, mutated>>
         ELSE IF material = None /\ step = None
         THEN /\ last' = reported(NothingToAssignMessage)
              /\ UNCHANGED <<elements, file_content, mutated>>
         ELSE \E r \in {update_elements(elements, file_content, selected_elements, material,
                                         step, element_type_filter)} :
                /\ elements' = r.elements
                /\ file_content' = r.content
                /\ mutated' = TRUE
                /\ last' = [reported(AssignedMessage) EXCEPT !.count = r.count,
                                                             !.material = material,
                                                             !.step = step,
                                                             !.filter = element_type_filter]
  /\ UNCHANGED <<nodes, selected_elements, max_material, max_step, extents, filepath>>
  /\ UNCHANGED ctlvars

\* CandeController.on_canvas_click: the selection mode it leaves
on_canvas_click(mode) == IF mode = "NONE" THEN "NEW" ELSE mode

\* CandeController.on_ctrl_click and on_shift_click set the mode and call on_canvas_click
on_ctrl_click(mode) == on_canvas_click("ADD")

on_shift_click(mode) == on_canvas_click("REMOVE")

\* a press of button 1 at (x, y) of the widget it falls on
ButtonPress(x, y, modifier, canvas) ==
  /\ ops < MaxEvents
  /\ ~pressed.down
  /\ canvas \/ modifier # "none"
  /\ selection_mode' =
       LET m1 == IF canvas THEN on_canvas_click(selection_mode) ELSE selection_mode
       IN  IF modifier = "ctrl" THEN on_ctrl_click(m1)
           ELSE IF modifier = "shift" THEN on_shift_click(m1)
           ELSE m1
  /\ drag_start_x' = x
  /\ drag_start_y' = y
  /\ is_dragging' = TRUE
  /\ pressed' = [down |-> TRUE, canvas |-> canvas, modifier |-> modifier, x |-> x, y |-> y]
  /\ ops' = ops + 1
  /\ last' = Did("press")
  /\ UNCHANGED <<file_content, nodes, elements, selected_elements, max_material, max_step,
                 extents, filepath, mutated, lasso_direction, element_type_filter, view>>

\* CandeController.on_canvas_drag: motion with button 1 held after a press on the canvas
Motion(x, y) ==
  /\ ops < MaxEvents
  /\ pressed.down /\ pressed.canvas
  /\ lasso_direction' = IF ~is_dragging THEN lasso_direction
                        ELSE IF x > drag_start_x THEN "LEFT_TO_RIGHT" ELSE "RIGHT_TO_LEFT"
  /\ ops' = ops + 1
  /\ last' = Did("motion")
  /\ UNCHANGED <<file_content, nodes, elements, selected_elements, max_material, max_step,
                 extents, filepath, mutated, selection_mode, is_dragging, drag_start_x,
                 drag_start_y, element_type_filter, view, pressed>>

\* the release of button 1 at (x, y): CandeController.on_canvas_release when the
\* press was on the canvas, no handler otherwise
ButtonRelease(x, y, line_width) ==
  /\ ops < MaxEvents
  /\ pressed.down
  /\ pressed' = [pressed EXCEPT !.down = FALSE]
  /\ ops' = ops + 1
  /\ IF pressed.canvas /\ is_dragging
     THEN /\ is_dragging' = FALSE
          /\ selected_elements' = on_canvas_release(nodes, elements, selected_elements,
                                                    Controller, x, y, line_width)
          /\ selection_mode' = "NONE"
          /\ last' = [Did("release") EXCEPT !.pre = Pre, !.event = <<x, y, line_width>>]
     ELSE /\ last' = Did("release_elsewhere")
          /\ UNCHANGED <<is_dragging, selected_elements, selection_mode>>
  /\ UNCHANGED <<file_content, nodes, elements, max_material, max_step, extents, filepath,
                 mutated, lasso_direction, drag_start_x, drag_start_y, element_type_filter,
                 view>>

\* the window: a file is opened, then the display filter and the mouse are used
CanvasNext ==
  \/ \E f \in CanvasFiles, io_ok \in BOOLEAN : OpenFile(f, io_ok)
  \/ \E t \in TypeChoices : ElementTypeChange(t)
  \/ \E a \in AssignTexts : AssignToSelection(a[1], a[2])
  \/ \E p \in PressPoints, m \in Modifiers, c \in BOOLEAN : ButtonPress(p[1], p[2], m, c)
  \/ \E p \in MotionPoints : Motion(p[1], p[2])
  \/ \E p \in ReleasePoints, w \in LineWidths : ButtonRelease(p[1], p[2], w)

CanvasSpec == Init /\ [][CanvasNext]_vars

(***************************************************************************)
(* Properties                                                              *)
(***************************************************************************)
\* the 0-based offsets at which a field of a record ends: a non-blank
\* character followed by a blank, the line terminator or the end of the line
FieldEnds(line) ==
  {i \in 0..Len(line) - 1 :
     /\ line[i + 1] \notin WhiteSpace
     /\ (i + 1 = Len(line) \/ line[i + 2] \in WhiteSpace)}

IsC2Line(line) == Contains(line, C2Marker)

Saved == last.op = "save" /\ last.ok

\* C1: a file that is loaded and saved with no mutation in between is written
\* with as many lines as were read, every line but the C-2 header line is the
\* input line at the same index, and the C-2 header line keeps its length and
\* each of its fields ending at the same column.
C1_RoundTripWithoutMutation ==
  (Saved /\ ~mutated) =>
    /\ Len(last.written) = Len(file_content)
    /\ \A i \in 1..Len(file_content) :
         IF IsC2Line(file_content[i])
         THEN /\ Len(last.written[i]) = Len(file_content[i])
              /\ FieldEnds(last.written[i]) = FieldEnds(file_content[i])
         ELSE last.written[i] = file_content[i]

\* an unmutated file holding node, element, interface and material records was saved
C1_Witness ==
  /\ Saved /\ ~mutated
  /\ filepath = 3
  /\ \E i \in 1..Len(last.written) : IsC2Line(last.written[i])
  /\ \E i \in 1..Len(last.written) : element_pattern(last.written[i]).ok

\* what a written line says as an element record: its id, its four node
\* slots, its material and its step
RecordOf(line) ==
  LET m == element_pattern(line)
  IN  IF m.ok
      THEN [ok |-> TRUE, element_id |-> GroupInt(line, m, 1),
            nodes |-> <<GroupInt(line, m, 2), GroupInt(line, m, 3),
                        GroupInt(line, m, 4), GroupInt(line, m, 5)>>,
            material |-> GroupInt(line, m, 6), step |-> GroupInt(line, m, 7)]
      ELSE [ok |-> FALSE, element_id |-> 0, nodes |-> <<>>, material |-> 0, step |-> 0]

\* the written lines that are records of the element with this id
RecordsOf(lines, element_id) ==
  {k \in 1..Len(lines) : RecordOf(lines[k]).ok /\ RecordOf(lines[k]).element_id = element_id}

Encodes(line, element) ==
  /\ RecordOf(line).nodes = PadNodes(element.nodes)
  /\ RecordOf(line).material = element.material
  /\ RecordOf(line).step = element.step

\* C2: whatever assign and create_interfaces operations followed the load, a
\* save writes for every element of the loaded file a record whose node slots,
\* material and step are the element's nodes, material and step in memory.
C2_SaveEncodesMemory ==
  Saved =>
    \A i \in 1..Len(elements) :
      elements[i].line_number >= 0 =>
        \E k \in RecordsOf(last.written, elements[i].element_id) :
          Encodes(last.written[k], elements[i])

\* the 0-based indices of the buffer lines that assign was asked to patch: the
\* record lines of the selected elements that pass the type filter
AssignTargets ==
  {last.pre.elements[i].line_number :
     i \in {j \in 1..Len(last.pre.elements) :
              /\ last.pre.elements[j].element_id \in last.pre.selected
              /\ last.pre.elements[j].line_number >= 0
              /\ PassesFilter(last.pre.elements[j], last.filter)}}

\* C3: assign changes, in the line buffer, only the record lines of the
\* selected elements that pass the type filter, and on those lines only the
\* material and step columns; every other line and every other column is as
\* it was before the call.
C3_AssignTouchesOnlyItsColumns ==
  last.op = "assign" =>
    /\ Len(file_content) = Len(last.pre.content)
    /\ \A k \in 1..Len(file_content) :
         IF k - 1 \in AssignTargets
         THEN /\ Slice(file_content[k], 0, MATERIAL_START_POS)
                   = Slice(last.pre.content[k], 0, MATERIAL_START_POS)
              /\ SliceFrom(file_content[k], STEP_END_POS)
                   = SliceFrom(last.pre.content[k], STEP_END_POS)
         ELSE file_content[k] = last.pre.content[k]

\* whether the decimal text of an optional value fits the 5-character field
Fits(value) == value = None \/ Len(IntStr(value[1])) <= MATERIAL_FIELD_WIDTH

\* C4: when the assigned material and step fit the 5-character field, parsing
\* the patched record line of every element the assign reached recovers the
\* assigned material and step, and the element id and node ids the line held
\* before.
C4_AssignThenParseRecovers ==
  (last.op = "assign" /\ Fits(last.material) /\ Fits(last.step)) =>
    \A k \in AssignTargets :
      LET before == RecordOf(last.pre.content[k + 1])
          after == RecordOf(file_content[k + 1])
      IN  /\ after.ok
          /\ after.element_id = before.element_id
          /\ after.nodes = before.nodes
          /\ after.material = (IF last.material = None THEN before.material ELSE last.material[1])
          /\ after.step = (IF last.step = None THEN before.step ELSE last.step[1])

Created == last.op = "create_interfaces" /\ ~last.raised

\* the nodes used by the elements of one type among those with the given ids
NodesUsed(es, type, ids) ==
  UNION {SeqRange(es[i].nodes) : i \in {j \in 1..Len(es) :
           es[j].type = type /\ es[j].element_id \in ids}}

\* the nodes at which the call was to create an interface: used by at least two
\* of the selected beams, by a 2D element, and by no interface element
EligibleNodes(es, selected) ==
  {n \in NodesUsed(es, "Element1D", selected) :
     /\ Cardinality({i \in 1..Len(es) : /\ es[i].type = "Element1D"
                                        /\ es[i].element_id \in selected
                                        /\ n \in SeqRange(es[i].nodes)}) >= 2
     /\ n \in NodesUsed(es, "Element2D", ElementIds(es))
     /\ n \notin NodesUsed(es, "InterfaceElement", ElementIds(es))}

\* the middle nodes of the interfaces the call created
CreatedAt == {last.created[i].J : i \in 1..Len(last.created)}

\* C5: create_interfaces creates exactly one interface at every node used by
\* at least two selected beams, by a 2D element and by no interface element,
\* and none at any other node, however the selected beams are arranged.
C5_OneInterfacePerEligibleNode ==
  Created =>
    /\ CreatedAt = EligibleNodes(last.pre.elements, last.pre.selected)
    /\ Len(last.created) = Cardinality(CreatedAt)

\* the inside node I of the interface the call created at node n, or n itself
\* when it created none there
InsideNode(n) ==
  IF n \in CreatedAt
  THEN last.created[CHOOSE i \in 1..Len(last.created) : last.created[i].J = n].I
  ELSE n

\* C6: after create_interfaces every selected beam holds, in each slot that
\* referenced a node where an interface was created, the new inside node I of
\* that interface, and the node lists of the unselected beams, of the 2D
\* elements and of the interface elements that existed before are unchanged.
C6_OnlySelectedBeamsRewired ==
  Created =>
    \A i \in 1..Len(last.pre.elements) :
      LET before == last.pre.elements[i]
          after == elements[i]
      IN  /\ after.element_id = before.element_id
          /\ after.nodes =
               (IF before.type = "Element1D" /\ before.element_id \in last.pre.selected
                THEN [j \in 1..Len(before.nodes) |-> InsideNode(before.nodes[j])]
                ELSE before.nodes)

\* an interface was created at a node that a selected beam, an unselected beam
\* and a 2D element all use
C6_Witness ==
  /\ Created
  /\ \E n \in CreatedAt :
       \E i, j, k \in 1..Len(last.pre.elements) :
         /\ last.pre.elements[i].type = "Element1D"
         /\ last.pre.elements[i].element_id \in last.pre.selected
         /\ n \in SeqRange(last.pre.elements[i].nodes)
         /\ n \notin SeqRange(elements[i].nodes)
         /\ last.pre.elements[j].type = "Element1D"
         /\ last.pre.elements[j].element_id \notin last.pre.selected
         /\ n \in SeqRange(elements[j].nodes)
         /\ last.pre.elements[k].type = "Element2D"
         /\ n \in SeqRange(elements[k].nodes)

\* the I and K node ids of the interfaces the call created
CreatedNodeIds == {last.created[i].I : i \in 1..Len(last.created)}
                  \cup {last.created[i].K : i \in 1..Len(last.created)}

\* C7: the I and K node ids of every interface a create_interfaces call
\* creates are greater than every node id in use when the call started, I
\* differs from K, and no id is given to two nodes in the same call.
C7_NewNodeIdsFresh ==
  Created =>
    /\ \A n \in CreatedNodeIds : \A id \in NodeIds(last.pre.nodes) : n > id
    /\ \A i \in 1..Len(last.created) : last.created[i].I # last.created[i].K
    /\ Cardinality(CreatedNodeIds) = 2 * Len(last.created)

\* one call created two interfaces in a mesh that already held synthetic nodes
C7_Witness ==
  /\ Created
  /\ Len(last.created) >= 2
  /\ \E i \in 1..Len(last.pre.nodes) : last.pre.nodes[i].line_number = -1

\* the id a written line carries as a node record, or 0
NodeIdOf(line) == IF node_pattern(line).ok THEN GroupInt(line, node_pattern(line), 1) ELSE 0

IsNodeRecord(line) == node_pattern(line).ok

IsElementRecord(line) == element_pattern(line).ok

\* the ids of the nodes and of the elements that have no line in the loaded file
SyntheticNodes == {nodes[i].node_id : i \in {j \in 1..Len(nodes) : nodes[j].line_number = -1}}

SyntheticElements ==
  {elements[i].element_id : i \in {j \in 1..Len(elements) : elements[j].line_number = -1}}

\* the 1-based index of the last node record of a buffer, or 0
LastNodeRecord(lines) == MaxOr({k \in 1..Len(lines) : IsNodeRecord(lines[k])}, 0)

\* the 1-based index of the last element record of a buffer, or 0
LastElementRecord(lines) == MaxOr({k \in 1..Len(lines) : IsElementRecord(lines[k])}, 0)

\* C8: a save that appends records writes the synthetic node records as one
\* block right after the line that was the last node record of the loaded
\* file, and the synthetic element records as one block right after the line
\* that was its last element record, whichever existing records were modified.
C8_AppendedAfterLastRecords ==
  (Saved /\ (SyntheticNodes # {} \/ SyntheticElements # {})) =>
    LET n == Cardinality(SyntheticNodes)
        e == Cardinality(SyntheticElements)
        last_node == LastNodeRecord(file_content)
        last_element == LastElementRecord(file_content)
    IN  /\ Len(last.written) >= last_element + n + e
        /\ {NodeIdOf(last.written[last_node + i]) : i \in 1..n} = SyntheticNodes
        /\ {RecordOf(last.written[last_element + n + i]).element_id : i \in 1..e}
             = SyntheticElements

\* C9: when the loaded file ends its node section and its element section with
\* a record flagged L and a save appends records, the written file has in each
\* of the two sections exactly one record flagged L, the last of the section.
C9_OneLastRecordFlag ==
  (/\ Saved
   /\ SyntheticNodes # {} \/ SyntheticElements # {}
   /\ NodeLastPattern(file_content[LastNodeRecord(file_content)])
   /\ ElementLastPattern(file_content[LastElementRecord(file_content)])) =>
    /\ {k \in 1..Len(last.written) : IsNodeRecord(last.written[k]) /\ NodeLastPattern(last.written[k])}
         = {LastNodeRecord(last.written)}
    /\ {k \in 1..Len(last.written) :
          IsElementRecord(last.written[k]) /\ ElementLastPattern(last.written[k])}
         = {LastElementRecord(last.written)}

\* the interface elements of the mesh, as indices into elements
Interfaces == {i \in 1..Len(elements) : elements[i].type = "InterfaceElement"}

\* C10: at save every interface element that create_interfaces made has a
\* material id of its own, the ids follow one another in creation order, and no
\* two interface elements of the saved mesh, new or loaded, share a material id.
C10_InterfaceMaterialsFresh ==
  Saved =>
    /\ \A i, j \in Interfaces : i # j => elements[i].material # elements[j].material
    /\ \A i, j \in Interfaces :
         (/\ elements[i].line_number = -1 /\ elements[j].line_number = -1
          /\ elements[j].element_id = elements[i].element_id + 1)
         => elements[j].material = elements[i].material + 1

\* the text of the k-th 5-character field (k = 0..9) after the marker of a header line
HeaderField(line, k) ==
  LET prefix_end == FindFirst(line, C2Marker) + Len(C2Marker)
  IN  Slice(line, prefix_end + 5 * k, prefix_end + 5 * k + 5)

\* the index of the header counter line of the loaded file
HeaderIndex == CHOOSE i \in 1..Len(file_content) : IsC2Line(file_content[i])

\* C11: after a save, the header counter line carries the number of nodes in field
\* 5 and the number of elements in field 6, at the offsets they had in the loaded
\* header, and the text of fields 1, 2, 3, 4 and 7 is the text that was loaded.
C11_HeaderCountsAndUntouchedFields ==
  Saved =>
    /\ HeaderField(last.written[HeaderIndex], 5) = FmtInt(Len(nodes), 5)
    /\ HeaderField(last.written[HeaderIndex], 6) = FmtInt(Len(elements), 5)
    /\ \A k \in {1, 2, 3, 4, 7} :
         HeaderField(last.written[HeaderIndex], k) = HeaderField(file_content[HeaderIndex], k)
\* the number held by the k-th field of a header line
HeaderValue(line, k) == DigitsVal(Strip(HeaderField(line, k)))

MaterialsOf(type) == {elements[i].material : i \in {j \in 1..Len(elements) : elements[j].type = type}}

\* C12: after a save, header field 8 is the larger of its loaded value and the
\* greatest material of a Face element, and header field 9 is the larger of its
\* loaded value and the greatest material of an Interface element.
C12_MaterialCountsFromFacesAndInterfaces ==
  (Saved /\ \A k \in {8, 9} : IsDigitStr(Strip(HeaderField(file_content[HeaderIndex], k)))) =>
    /\ HeaderValue(last.written[HeaderIndex], 8)
         = Max({HeaderValue(file_content[HeaderIndex], 8)} \cup MaterialsOf("Element2D"))
    /\ HeaderValue(last.written[HeaderIndex], 9)
         = Max({HeaderValue(file_content[HeaderIndex], 9)} \cup MaterialsOf("InterfaceElement"))
\* the last operation was a save_file whose open() or writelines() failed
WriteFailed == last.op = "save" /\ ~last.ok /\ ~last.raised /\ file_content # <<>>

\* C13: a save whose write fails returns failure and leaves every node, every
\* element, the selection and the line buffer as they were before the call.
C13_FailedSaveLeavesMeshUnchanged ==
  WriteFailed =>
    /\ nodes = last.pre.nodes
    /\ elements = last.pre.elements
    /\ selected_elements = last.pre.selected
    /\ file_content = last.pre.content
\* the last operation was a load_file that read its file
FileRead == last.op = "load" /\ (last.ok \/ last.raised)

\* a line that parse_cande_file turns into a node
ValidNodeRecord(line) ==
  LET m == node_pattern(line)
  IN  /\ m.ok
      /\ ParseFloat(Group(line, m, 2)).ok /\ ParseFloat(Group(line, m, 3)).ok
      /\ GroupInt(line, m, 1) > 0

\* the element type that goes with an element class and a number of nodes
TypeFor(element_class, node_count) ==
  IF element_class = 1 THEN "InterfaceElement"
  ELSE IF node_count = 2 THEN "Element1D"
  ELSE IF node_count \in {3, 4} THEN "Element2D" ELSE "none"

\* the non-zero node slots of an element line
SlotsOf(line, m) ==
  NonZero(<<GroupInt(line, m, 2), GroupInt(line, m, 3), GroupInt(line, m, 4), GroupInt(line, m, 5)>>)

\* a line that parse_cande_file turns into an element
ValidElementRecord(line) ==
  LET m == element_pattern(line)
  IN  /\ m.ok
      /\ m.g[8][1] >= 0
      /\ GroupInt(line, m, 8) \in {0, 1}
      /\ TypeFor(GroupInt(line, m, 8), Len(SlotsOf(line, m))) # "none"
      /\ ElementValid(TypeFor(GroupInt(line, m, 8), Len(SlotsOf(line, m))), GroupInt(line, m, 1),
                      SlotsOf(line, m), GroupInt(line, m, 6), GroupInt(line, m, 7))

\* C14: a load that read its file succeeds, and every line of the file that is a
\* valid node or element record is in the mesh, whatever the other lines hold.
C14_InvalidRecordSkippedAlone ==
  FileRead =>
    /\ last.ok
    /\ \A i \in 1..Len(file_content) :
         /\ ValidNodeRecord(file_content[i]) =>
              GroupInt(file_content[i], node_pattern(file_content[i]), 1) \in NodeIds(nodes)
         /\ ValidElementRecord(file_content[i]) =>
              GroupInt(file_content[i], element_pattern(file_content[i]), 1) \in ElementIds(elements)

\* an element line with id, four node slots, material and step and no class field
ClasslessRecord(line) ==
  LET m == element_pattern(line)
  IN  /\ m.ok
      /\ m.g[8][1] < 0
      /\ TypeFor(0, Len(SlotsOf(line, m))) # "none"
      /\ ElementValid(TypeFor(0, Len(SlotsOf(line, m))), GroupInt(line, m, 1), SlotsOf(line, m),
                      GroupInt(line, m, 6), GroupInt(line, m, 7))

\* C15: an element line without the class field is loaded as the Beam or Face
\* element its node slots, material and step describe.
C15_ClassFieldOptional ==
  FileRead =>
    \A i \in 1..Len(file_content) :
      ClasslessRecord(file_content[i]) =>
        LET m == element_pattern(file_content[i])
        IN  \E j \in 1..Len(elements) :
              /\ elements[j].element_id = GroupInt(file_content[i], m, 1)
              /\ elements[j].type = TypeFor(0, Len(SlotsOf(file_content[i], m)))
              /\ SeqRange(elements[j].nodes) = SeqRange(SlotsOf(file_content[i], m))
              /\ elements[j].material = GroupInt(file_content[i], m, 6)
              /\ elements[j].step = GroupInt(file_content[i], m, 7)
\* the nodes used by at least two of the selected beams and by a 2D element
FaceSharedNodes(es, selected) ==
  {n \in NodesUsed(es, "Element1D", selected) :
     /\ Cardinality({i \in 1..Len(es) : /\ es[i].type = "Element1D"
                                        /\ es[i].element_id \in selected
                                        /\ n \in SeqRange(es[i].nodes)}) >= 2
     /\ n \in NodesUsed(es, "Element2D", ElementIds(es))}

\* C16: a create_interfaces that creates nothing returns the flag "all eligible
\* nodes already have interfaces" when every node shared by two selected beams
\* and used by a Face is used by an Interface element, and returns it unset when
\* no node is shared by two selected beams and used by a Face.
C16_ZeroCreatedStatus ==
  (Created /\ last.count = 0) =>
    LET shared == FaceSharedNodes(last.pre.elements, last.pre.selected)
        taken == NodesUsed(last.pre.elements, "InterfaceElement", ElementIds(last.pre.elements))
    IN  /\ (shared # {} /\ shared \subseteq taken) => last.flag
        /\ shared = {} => ~last.flag
Commanded == last.op = "command_create_interfaces"

\* C17: the create-interfaces command always ends with a message shown to the
\* user: the success message with the number created when it created at least
\* one interface, and, when it created none, a message for "all eligible nodes
\* already have interfaces" that is not the message for "no eligible nodes".
C17_CommandAlwaysReports ==
  Commanded =>
    /\ last.message # NoMessage
    /\ last.count > 0 => last.message = CreatedMessage
    /\ (last.count = 0 /\ last.flag) => last.message # NoEligibleMessage
\* the selected beams of the call, and those of them at node n
CallBeams == BeamIds(last.pre.elements, last.pre.selected)

CallBeamsAt(n) == BeamsAt(last.pre.elements, CallBeams, n)

\* the nodes joining exactly two selected beams for which the direct computation
\* and the extended search both return no angle
NoAngleNodes ==
  {n \in NodeIds(last.pre.nodes) :
     /\ Len(CallBeamsAt(n)) = 2
     /\ calculate_angle_for_node(last.pre.nodes, last.pre.elements, n, CallBeamsAt(n)) = None
     /\ calculate_angle_with_extended_search(last.pre.nodes, last.pre.elements, CallBeams, n,
                                             CallBeamsAt(n)) = None}

\* C18: create_interfaces creates no interface at a node for which neither the
\* direct computation nor the extended search yields an angle.
C18_NoInterfaceWithoutAngle ==
  Created => CreatedAt \cap NoAngleNodes = {}

\* the far endpoints of the two selected beams at node n, as the direct computation takes them
FarEnds(n) ==
  [i \in 1..2 |-> FirstNode(ElementAt(last.pre.elements, CallBeamsAt(n)[i]).nodes,
                            NodeIds(last.pre.nodes) \ {n})[1]]

\* the points p, q and r lie on one line
Collinear(p, q, r) == (q[1] - p[1]) * (r[2] - p[2]) = (q[2] - p[2]) * (r[1] - p[1])

\* the nodes joining exactly two selected beams that lie on the chord of their far endpoints
ChordNodes ==
  {n \in NodeIds(last.pre.nodes) :
     /\ Len(CallBeamsAt(n)) = 2
     /\ CallBeamsAt(n)[1] # CallBeamsAt(n)[2]
     /\ Collinear(Coord(last.pre.nodes, FarEnds(n)[1]), Coord(last.pre.nodes, FarEnds(n)[2]),
                  Coord(last.pre.nodes, n))}

\* C19: for a node on the chord of the far endpoints of its two beams, wherever
\* on the chord it lies, the direct computation yields no angle.
C19_CollinearNodeHasNoDirectAngle ==
  Created =>
    \A n \in ChordNodes :
      calculate_angle_for_node(last.pre.nodes, last.pre.elements, n, CallBeamsAt(n)) = None
RECURSIVE Shoelace(_, _)
\* twice the signed area of the polygon through the points q, closed by its first point
Shoelace(q, first) ==
  IF Len(q) = 1 THEN q[1][1] * first[2] - first[1] * q[1][2]
  ELSE q[1][1] * q[2][2] - q[2][1] * q[1][2] + Shoelace(Tail(q), first)

\* twice the signed area of an element in its stored node order
SignedArea2(element) ==
  Shoelace([i \in 1..Len(element.nodes) |-> Coord(nodes, element.nodes[i])],
           Coord(nodes, element.nodes[1]))

Loaded == last.op = "load" /\ last.ok

\* C20: after a load every Face element of the mesh has its nodes in the mesh and
\* a signed area of at least 0 in its stored node order; an element carries no
\* mark of invalidity that could stand in for it.
C20_FacesCounterClockwise ==
  Loaded =>
    \A i \in 1..Len(elements) :
      elements[i].type = "Element2D" =>
        /\ SeqRange(elements[i].nodes) \subseteq NodeIds(nodes)
        /\ SignedArea2(elements[i]) >= 0

\* a release on the canvas has just been handled, and it ended a drag (a lasso)
\* or a click
Released == last.op = "release"

IsClick == Abs(last.event[1] - pressed.x) < 5 /\ Abs(last.event[2] - pressed.y) < 5

LassoReleased == Released /\ ~IsClick

\* the corners of the lasso rectangle in model coordinates: (min_x, max_y) and
\* (max_x, min_y)
LassoLow == screen_to_model(view, Min({pressed.x, last.event[1]}), Min({pressed.y, last.event[2]}))

LassoHigh == screen_to_model(view, Max({pressed.x, last.event[1]}), Max({pressed.y, last.event[2]}))

NodeInLasso(n) == InLasso(NodeAt(nodes, n), LassoLow[1], LassoHigh[2], LassoHigh[1], LassoLow[2])

\* what _find_elements_in_lasso returned at this release
LassoHit ==
  find_elements_in_lasso(nodes, elements, element_type_filter, lasso_direction,
                         LassoLow[1], LassoHigh[2], LassoHigh[1], LassoLow[2])

\* the element is drawn under the display filter: every element when no filter is
\* set, the elements of the checked types otherwise
Displayed(element) ==
  \/ element_type_filter.kind = "none"
  \/ \E i \in 1..Len(element_type_filter.names) :
       element_matches_filter(element, element_type_filter.names[i])

\* C21: at the release of a lasso, for every displayed element: if the lasso was
\* drawn left to right and all its nodes are inside the rectangle it is in the set
\* the lasso selects, if the lasso was drawn right to left and one of its nodes is
\* inside it is in that set, and if none of its nodes is inside it is not.
C21_LassoSelectsDisplayed ==
  LassoReleased =>
    \A i \in 1..Len(elements) :
      Displayed(elements[i]) =>
        LET ns == SeqRange(elements[i].nodes) \cap NodeIds(nodes)
            all_inside == ns # {} /\ \A n \in ns : NodeInLasso(n)
            any_inside == \E n \in ns : NodeInLasso(n)
            id == elements[i].element_id
        IN  /\ (last.event[1] > pressed.x /\ all_inside) => id \in LassoHit
            /\ (last.event[1] < pressed.x /\ any_inside) => id \in LassoHit
            /\ ~any_inside => id \notin LassoHit

\* the elements hit by the gesture that has just ended: the element under the
\* click, or the elements the lasso selects
GestureHit ==
  IF IsClick
  THEN SeqRange(find_element_at_position(view, last.event[1], last.event[2], nodes, elements,
                                         element_type_filter, last.event[3]))
  ELSE LassoHit

\* C22: after the release of a gesture pressed with no modifier the selection is
\* the set of elements hit, pressed with Control it is the selection before the
\* release united with that set, and pressed with Shift it is the selection
\* before the release without that set, whatever gestures came before.
C22_ModeFromOwnPress ==
  Released =>
    selected_elements =
      IF pressed.modifier = "ctrl" THEN last.pre.selected \cup GestureHit
      ELSE IF pressed.modifier = "shift" THEN last.pre.selected \ GestureHit
      ELSE GestureHit

\* the direction obtained by comparing the x of the release with the x of the
\* press of the gesture that has just ended
ReleaseDirection == IF last.event[1] > pressed.x THEN "LEFT_TO_RIGHT" ELSE "RIGHT_TO_LEFT"

\* C23: at the release of a lasso the direction with which the selection is
\* resolved is the one given by the release x compared with the press x of the
\* same gesture: the elements selected are those a lasso of that direction selects.
C23_DirectionFromRelease ==
  LassoReleased =>
    /\ lasso_direction = ReleaseDirection
    /\ LassoHit = find_elements_in_lasso(nodes, elements, element_type_filter, ReleaseDirection,
                                         LassoLow[1], LassoHigh[2], LassoHigh[1], LassoLow[2])

\* the Interface elements of the mesh
InterfaceIds == {elements[i].element_id : i \in {j \in 1..Len(elements) : elements[j].type = "InterfaceElement"}}

\* C24: the release of a lasso, of either direction and under every filter state,
\* puts no Interface element into the selection that was not in it before.
C24_LassoAddsNoInterface ==
  LassoReleased => (selected_elements \ last.pre.selected) \cap InterfaceIds = {}

\* a release on the canvas has just been handled as a click
ClickReleased == Released /\ IsClick

\* the model coordinates of the pixel of the click, each a fraction of thousandths
ClickModel == screen_to_model(view, last.event[1], last.event[2])

\* the Face elements of the mesh that have at least three nodes in the mesh
ClickFaces == {i \in 1..Len(elements) : /\ elements[i].type = "Element2D"
                                        /\ Len(ElementNodes(nodes, elements[i])) >= 3}

\* the sign of the cross product of the edge from p to q with the vector from p
\* to the click point: positive when the point is to the left of the edge
ClickSide(p, q) ==
  LET n == ClickModel
      cross == (q.x - p.x) * (n[2][1] - p.y * n[2][2]) * n[1][2]
               - (q.y - p.y) * (n[1][1] - p.x * n[1][2]) * n[2][2]
  IN  IF cross > 0 THEN 1 ELSE IF cross < 0 THEN -1 ELSE 0

\* the click point lies on the segment from p to q, end points included
ClickOnEdge(p, q) ==
  LET n == ClickModel
  IN  /\ ClickSide(p, q) = 0
      /\ Min({p.x, q.x}) * n[1][2] <= n[1][1] /\ n[1][1] <= Max({p.x, q.x}) * n[1][2]
      /\ Min({p.y, q.y}) * n[2][2] <= n[2][1] /\ n[2][1] <= Max({p.y, q.y}) * n[2][2]

\* the sides of the click point with respect to the edges of the element, in the
\* stored node order
ClickSides(element) ==
  LET q == ElementNodes(nodes, element)
  IN  [i \in 1..Len(q) |-> ClickSide(q[i], q[(i % Len(q)) + 1])]

ClickOnBoundary(element) ==
  LET q == ElementNodes(nodes, element)
  IN  \E i \in 1..Len(q) : ClickOnEdge(q[i], q[(i % Len(q)) + 1])

\* for a convex element: the point is on the same side of every edge
ClickStrictlyInside(element) ==
  \/ \A i \in 1..Len(ClickSides(element)) : ClickSides(element)[i] = 1
  \/ \A i \in 1..Len(ClickSides(element)) : ClickSides(element)[i] = -1

\* the element is convex: its signed area is not 0 and no vertex lies on the
\* wrong side of an edge
ConvexFace(element) ==
  LET q == ElementNodes(nodes, element)
      turn(i, j) == LET a == q[i]
                        b == q[(i % Len(q)) + 1]
                        c == q[j]
                    IN  (b.x - a.x) * (c.y - a.y) - (b.y - a.y) * (c.x - a.x)
  IN  /\ \E i, j \in 1..Len(q) : turn(i, j) # 0
      /\ \/ \A i, j \in 1..Len(q) : turn(i, j) >= 0
         \/ \A i, j \in 1..Len(q) : turn(i, j) <= 0

\* C27: in the hit test of a click, a convex Face element is hit when the point
\* of the click lies on one of its edges or vertices or strictly inside it, and
\* is not hit when the point lies strictly outside it.
C27_BoundaryIsInside ==
  ClickReleased =>
    \A i \in ClickFaces :
      ConvexFace(elements[i]) =>
        (HitAt(view, last.event[1], last.event[2], nodes, elements[i], last.event[3])
           <=> (ClickOnBoundary(elements[i]) \/ ClickStrictlyInside(elements[i])))

\* the last width characters of the decimal text of a value
LowOrderText(value, width) ==
  SubSeq(IntStr(value), Len(IntStr(value)) - width + 1, Len(IntStr(value)))

\* C25: when assign is given a material or step whose decimal text is longer than
\* the 5-character field, the field of every record line the assign reached holds
\* the last 5 characters of that text, and the line has the length it had and
\* the characters it had outside the fields assigned.
C25_LongValueKeepsLowDigits ==
  (last.op = "assign" /\ (~Fits(last.material) \/ ~Fits(last.step))) =>
    \A k \in AssignTargets :
      LET before == last.pre.content[k + 1]
          after == file_content[k + 1]
      IN  /\ ~Fits(last.material) =>
                Slice(after, MATERIAL_START_POS, MATERIAL_END_POS)
                  = LowOrderText(last.material[1], MATERIAL_FIELD_WIDTH)
          /\ ~Fits(last.step) =>
                Slice(after, STEP_START_POS, STEP_END_POS)
                  = LowOrderText(last.step[1], STEP_FIELD_WIDTH)
          /\ Len(after) = Len(before)
          /\ \A c \in 1..Len(before) :
                \/ last.material # None /\ c > MATERIAL_START_POS /\ c <= MATERIAL_END_POS
                \/ last.step # None /\ c > STEP_START_POS /\ c <= STEP_END_POS
                \/ after[c] = before[c]

\* an assign with an over-long value has just patched a record line
C25_Witness ==
  /\ last.op = "assign"
  /\ ~Fits(last.material) /\ ~Fits(last.step)
  /\ last.step[1] < 0
  /\ last.count > 0
  /\ AssignTargets # {}

\* the terminator a line ends with
Terminator(line) ==
  IF Len(line) >= 2 /\ SubSeq(line, Len(line) - 1, Len(line)) = CRLF THEN "CRLF"
  ELSE IF Len(line) >= 1 /\ line[Len(line)] = "\n" THEN "LF"
  ELSE "none"

\* C26: in the file a save writes, the header counter line ends with the
\* terminator it ended with in the file that was loaded: CR LF stays CR LF and
\* LF alone stays LF alone.
C26_HeaderKeepsTerminator ==
  Saved =>
    \A i \in 1..Len(Files[filepath]) :
      (IsC2Line(Files[filepath][i]) /\ i <= Len(last.disk)) =>
        Terminator(last.disk[i]) = Terminator(Files[filepath][i])

\* an assign request has just been handled that carried a material or a step of
\* 0 or less
NonPositiveAssign ==
  /\ last.op = "assign_to_selection"
  /\ \/ last.material # None /\ last.material[1] <= 0
     \/ last.step # None /\ last.step[1] <= 0

\* C28: in every reachable state every element of the mesh has a material and a
\* step greater than 0, and an assign request that carried a value of 0 or less
\* has changed no element.
C28_PositiveMaterialAndStep ==
  /\ \A i \in 1..Len(elements) : elements[i].material > 0 /\ elements[i].step > 0
  /\ NonPositiveAssign => elements = last.pre.elements

\* a create_interfaces call has just grouped its selected beams into chains
Grouped ==
  /\ last.op = "create_interfaces"
  /\ CallBeams # <<>>
  /\ find_shared_beam_nodes(last.pre.elements) # {}

\* the chains _find_beam_chains returned in that call
CallChains == find_beam_chains(last.pre.elements, CallBeams)

CallBeamNodes(id) == SeqRange(ElementAt(last.pre.elements, id).nodes)

RECURSIVE BeamGroup(_)
\* the selected beams connected with the beams of S through shared nodes
BeamGroup(S) ==
  LET more == {b \in SeqRange(CallBeams) :
                 \E a \in S : CallBeamNodes(a) \cap CallBeamNodes(b) # {}}
  IN  IF more \subseteq S THEN S ELSE BeamGroup(S \cup more)

\* no node of the group is used by more than two of its beams
SimpleGroup(S) ==
  \A n \in UNION {CallBeamNodes(b) : b \in S} :
    Cardinality({b \in S : n \in CallBeamNodes(b)}) <= 2

\* C29: the chains into which a call groups the selected beams hold every
\* selected beam exactly once, consecutive beams of a chain share a node, and
\* the beams of a connected group in which no node is used by more than two beams
\* are all in one chain.
C29_ChainsPartitionBeams ==
  Grouped =>
    /\ \A b \in SeqRange(CallBeams) :
         Cardinality({<<c, i>> \in (1..Len(CallChains)) \X (1..Len(CallBeams)) :
                        i <= Len(CallChains[c]) /\ CallChains[c][i] = b}) = 1
    /\ \A c \in 1..Len(CallChains) :
         /\ SeqRange(CallChains[c]) \subseteq SeqRange(CallBeams)
         /\ \A i \in 1..(Len(CallChains[c]) - 1) :
              CallBeamNodes(CallChains[c][i]) \cap CallBeamNodes(CallChains[c][i + 1]) # {}
    /\ \A b \in SeqRange(CallBeams) :
         SimpleGroup(BeamGroup({b})) =>
           \E c \in 1..Len(CallChains) : BeamGroup({b}) \subseteq SeqRange(CallChains[c])

\* a step that is a create_interfaces call made directly after a create_interfaces
\* call: the selection is the one the first call had
SecondCreate ==
  /\ last.op = "create_interfaces" /\ ~last.raised
  /\ last'.op = "create_interfaces" /\ ~last'.raised
  /\ ops' = ops + 1

\* C30: a create_interfaces call made directly after another with the same
\* selection reports 0 interfaces created and leaves the nodes and the elements,
\* the beams among them, as they were.
C30_SecondCallCreatesNothing ==
  [][SecondCreate => (last'.count = 0 /\ nodes' = nodes /\ elements' = elements)]_vars

\* a second call has just followed a first call that created an interface
C30_Witness ==
  /\ last.op = "create_interfaces" /\ ~last.raised
  /\ last.count = 0
  /\ last.pre.selected = selected_elements
  /\ \E i \in 1..Len(last.pre.elements) :
       /\ last.pre.elements[i].type = "InterfaceElement"
       /\ last.pre.elements[i].line_number = -1
====
